---- MODULE Spec2Model ----
(***************************************************************************)
(* A model of jsteenb2/httpc: the retry loop of Request.Do, the backoff    *)
(* policies, the classification of a response into an HTTPErr and the      *)
(* redacted diagnostic text of an HTTPErr.                                 *)
(*                                                                         *)
(* The specifications share the variables:                                 *)
(*   Spec       - one Request.Do call: retry(ctx, r.do, r.backoff)         *)
(*   SpecBuild  - the Request builder followed by one attempt r.do         *)
(*   SpecErr    - an HTTPErr and its Error() / BackoffMessage() methods    *)
(*   SpecDo     - one attempt r.do against a Doer with failing bodies      *)
(*   SpecHdr    - the headers and query params of Client and Request       *)
(*   SpecAgain  - Do called again on a Request of the same Client          *)
(*   SpecNext   - the exported Next of every policy                        *)
(*   SpecDecode - Do with decoders of the response and of the error body   *)
(*   SpecFlags  - Do on requests that differ in their flag lists           *)
(*   SpecJitter - jitter and the jittered SimpleBackoff                    *)
(*   SpecCallers - two concurrent callers of Next on one policy instance   *)
(*   SpecShare  - two Requests of one Client adding headers, the header    *)
(*                lists as Go slices over shared backing arrays            *)
(***************************************************************************)
EXTENDS Integers, Sequences, FiniteSets, TLC

VARIABLES
    r,            \* the Request being built / executed
    pc,           \* position of the running call
    n,            \* retry(): var n int
    err,          \* retry(): var err error, and the value Do returned once pc = "done"
    wait,         \* retry(): the wait handed to time.After
    timer,        \* the channel of time.After(wait): "none", "pending", "fired"
    ctxErr,       \* ctx.Err(): "none" until the caller's context is done
    doCallCount,  \* number of Doer.Do calls (transport dispatches)
    obs,          \* observations of the run (history), not read by the program
    e,            \* the HTTPErr under inspection (SpecErr)
    out           \* the last diagnostic string produced (SpecErr)

vars == <<r, pc, n, err, wait, timer, ctxErr, doCallCount, obs, e, out>>

(***************************************************************************)
(* Bounds of the model.                                                    *)
(***************************************************************************)
MaxCalls == 3
MaxFns == 3
\* the headers of a Request, those of its Client included, and its query params
MaxHeaders == 3
MaxParams == 2
\* the calls of Do on one Request after the first
MaxAgain == 1
MaxPairs == 2
\* the largest entry of a schedule handed to jitter
MaxMillis == 6
\* the headers one Request adds to those of its Client (SpecShare)
MaxAdded == 2

\* the retry loop is cut off after this many attempts (unlimited policies)
MaxAttempts == MaxCalls + 2

(***************************************************************************)
(* Status predicates (retry.go).  A StatusFn is a closure; it is modelled  *)
(* by the constructor that made it and the constructor's arguments.        *)
(***************************************************************************)
StatusOKCode == 200
StatusNoContentCode == 204
StatusNotFoundCode == 404
StatusUnprocessableEntityCode == 422
StatusInternalServerErrorCode == 500

Statuses == {StatusOKCode, StatusNoContentCode, StatusNotFoundCode,
             StatusUnprocessableEntityCode, StatusInternalServerErrorCode}

StatusFn(op, codes, low, high) == [op |-> op, codes |-> codes, low |-> low, high |-> high]

\* for _, code := range status { if code == statusCode { return true } }; return false
RECURSIVE InLoop(_, _, _)
InLoop(codes, i, statusCode) ==
    IF i > Len(codes) THEN FALSE
    ELSE IF codes[i] = statusCode THEN TRUE
    ELSE InLoop(codes, i + 1, statusCode)

StatusIn(codes) == StatusFn("In", codes, 0, 0)
StatusInRange(low, high) == StatusFn("InRange", <<>>, low, high)
StatusNotIn(codes) == StatusFn("NotIn", codes, 0, 0)
StatusNot(status) == StatusFn("Not", <<status>>, 0, 0)
StatusOK == StatusFn("Eq", <<StatusOKCode>>, 0, 0)
StatusNoContent == StatusFn("Eq", <<StatusNoContentCode>>, 0, 0)
StatusNotFound == StatusFn("Eq", <<StatusNotFoundCode>>, 0, 0)
StatusUnprocessableEntity == StatusFn("Eq", <<StatusUnprocessableEntityCode>>, 0, 0)
StatusInternalServerError == StatusFn("Eq", <<StatusInternalServerErrorCode>>, 0, 0)

\* calling the closure fn on a status code
CallStatusFn(fn, statusCode) ==
    CASE fn.op = "In" -> InLoop(fn.codes, 1, statusCode)
      [] fn.op = "InRange" -> fn.low <= statusCode /\ fn.high >= statusCode
      [] fn.op = "NotIn" -> ~InLoop(fn.codes, 1, statusCode)
      [] fn.op = "Not" -> fn.codes[1] # statusCode
      [] fn.op = "Eq" -> fn.codes[1] = statusCode

\* statusMatches returning what the first fn of the list says
statusMatchesFromFirstOnly(status, fns, i) ==
    IF i > Len(fns) THEN FALSE
    ELSE CallStatusFn(fns[i], status)

RECURSIVE statusMatchesFrom(_, _, _)
statusMatchesFrom(status, fns, i) ==
    IF i > Len(fns) THEN FALSE
    ELSE IF CallStatusFn(fns[i], status) THEN TRUE
    ELSE statusMatchesFrom(status, fns, i + 1)

statusMatches(status, fns) == statusMatchesFrom(status, fns, 1)

(***************************************************************************)
(* Backoff policies (backoff.go).  Next(retry) returns (wait, retry); the  *)
(* random draws of ExponentialBackoff and jitter make it a set of results. *)
(* A time.Duration is a number of nanoseconds.                             *)
(***************************************************************************)
Backoffer(kind, maxCalls, interval, t, m, ticks, jit) ==
    [kind |-> kind, maxCalls |-> maxCalls, interval |-> interval,
     t |-> t, m |-> m, ticks |-> ticks, jitter |-> jit,
     mutex |-> 0]   \* the sync.Mutex of a SimpleBackoff: 0 unlocked, else the caller holding it

NewZeroBackoff(maxCalls) == Backoffer("Zero", maxCalls, 0, 0, 0, <<>>, FALSE)
NewStopBackoff == Backoffer("Stop", 0, 0, 0, 0, <<>>, FALSE)
NewConstantBackoff(interval, maxCalls) == Backoffer("Constant", maxCalls, interval, 0, 0, <<>>, FALSE)
\* time.Millisecond
Millisecond == 1000000

\* t: float64(int64(initialTimeout / time.Millisecond)), m likewise
NewExponentialBackoff(initialTimeout, maxTimeout, maxCalls) ==
    Backoffer("Exponential", maxCalls, 0, initialTimeout \div Millisecond,
              maxTimeout \div Millisecond, <<>>, FALSE)
NewSimpleBackoff(maxCalls, jit, ticks) == Backoffer("Simple", maxCalls, 0, 0, 0, ticks, jit)

NextResult(w, cont) == [wait |-> w, retry |-> cont]

RECURSIVE Pow2(_)
Pow2(k) == IF k <= 0 THEN 1 ELSE 2 * Pow2(k - 1)

\* r := 1.0 + rand.Float64(), in quarters: r = q / 4 with q in 4..7
RandQuarters == 4..7

\* ZeroBackoff.Next without the maxCalls > 0 test, comparing with >=
ZeroBackoffNextNoUnlimited(b, retry) ==
    IF retry >= b.maxCalls
    THEN {NextResult(0, FALSE)}
    ELSE {NextResult(0, TRUE)}

ZeroBackoffNext(b, retry) ==
    IF b.maxCalls > 0 /\ retry = b.maxCalls
    THEN {NextResult(0, FALSE)}
    ELSE {NextResult(0, TRUE)}

StopBackoffNext(b, retry) == {NextResult(0, FALSE)}

\* ConstantBackoff.Next with the cut-off compared one call late
ConstantBackoffNextLate(b, retry) ==
    IF b.maxCalls > 0 /\ retry > b.maxCalls
    THEN {NextResult(0, FALSE)}
    ELSE {NextResult(b.interval, TRUE)}

ConstantBackoffNext(b, retry) ==
    IF b.maxCalls > 0 /\ retry = b.maxCalls
    THEN {NextResult(0, FALSE)}
    ELSE {NextResult(b.interval, TRUE)}

\* ExponentialBackoff.Next without the maxCalls cut-off
ExponentialBackoffNextNoMax(b, retry) ==
    { IF q * b.t * Pow2(retry) >= 4 * b.m
      THEN NextResult(0, FALSE)
      ELSE NextResult(((q * b.t * Pow2(retry)) \div 4) * Millisecond, TRUE) : q \in RandQuarters }

\* ExponentialBackoff.Next stopping only above the ceiling: if m > b.m { stop }
ExponentialBackoffNextAboveCeiling(b, retry) ==
    IF b.maxCalls > 0 /\ retry = b.maxCalls
    THEN {NextResult(0, FALSE)}
    ELSE { IF q * b.t * Pow2(retry) >= 4 * b.m
           THEN NextResult(b.m * Millisecond, TRUE)
           ELSE NextResult(((q * b.t * Pow2(retry)) \div 4) * Millisecond, TRUE) : q \in RandQuarters }

\* m := math.Min(r*b.t*math.Pow(b.f, retry), b.m); if m >= b.m { stop }
\* with r = q/4:  m >= b.m  iff  q*t*2^retry >= 4*b.m ;  int64(m) = (q*t*2^retry) \div 4
ExponentialBackoffNext(b, retry) ==
    IF b.maxCalls > 0 /\ retry = b.maxCalls
    THEN {NextResult(0, FALSE)}
    ELSE { IF q * b.t * Pow2(retry) >= 4 * b.m
           THEN NextResult(0, FALSE)
           ELSE NextResult(((q * b.t * Pow2(retry)) \div 4) * Millisecond, TRUE) : q \in RandQuarters }

\* millis/2 + rand.Intn(millis)
jitter(millis) ==
    IF millis <= 0 THEN {0}
    ELSE { (millis \div 2) + d : d \in 0..(millis - 1) }

\* SimpleBackoff.Next under the lock, the schedule walked by a cursor the
\* instance keeps: the entry is that of the calls made so far, not of retry
underLockCursor(b, retry) ==
    IF obs.nextCalls = 0 \/ obs.nextCalls - 1 >= Len(b.ticks)
    THEN {NextResult(0, FALSE)}
    ELSE IF b.jitter
         THEN { NextResult(ms * Millisecond, TRUE) : ms \in jitter(b.ticks[obs.nextCalls]) }
         ELSE {NextResult(b.ticks[obs.nextCalls] * Millisecond, TRUE)}

\* SimpleBackoff.Next between b.Lock() and the deferred b.Unlock().
\* b.ticks[retry] is a 0-based Go index: element retry + 1 of the sequence
underLock(b, retry) ==
    IF retry >= Len(b.ticks)
    THEN {NextResult(0, FALSE)}
    ELSE IF b.jitter
         THEN { NextResult(ms * Millisecond, TRUE) : ms \in jitter(b.ticks[retry + 1]) }
         ELSE {NextResult(b.ticks[retry + 1] * Millisecond, TRUE)}

SimpleBackoffNext(b, retry) ==
    IF b.maxCalls > 0 /\ retry = b.maxCalls
    THEN {NextResult(0, FALSE)}
    ELSE underLock(b, retry)

BackoffNext(b, retry) ==
    CASE b.kind = "Zero" -> ZeroBackoffNext(b, retry)
      [] b.kind = "Stop" -> StopBackoffNext(b, retry)
      [] b.kind = "Constant" -> ConstantBackoffNext(b, retry)
      [] b.kind = "Exponential" -> ExponentialBackoffNext(b, retry)
      [] b.kind = "Simple" -> SimpleBackoffNext(b, retry)

(***************************************************************************)
(* Strings are sequences of tokens; byte streams are sequences of bytes    *)
(* with a read position.                                                   *)
(***************************************************************************)
Contains(str, tok) == \E i \in 1..Len(str) : str[i] = tok

\* strings.Join(parts, sep)
RECURSIVE Join(_, _)
Join(parts, sep) ==
    IF Len(parts) = 0 THEN <<>>
    ELSE IF Len(parts) = 1 THEN parts[1]
    ELSE parts[1] \o sep \o Join(Tail(parts), sep)

\* an io.ReadCloser: nil, or data with a read position; failRead: Read returns
\* an error; failClose: Close returns an error
Stream(data, failRead) ==
    [nil |-> FALSE, data |-> data, pos |-> 0, closed |-> FALSE, failRead |-> failRead, failClose |-> FALSE]
NilStream ==
    [nil |-> TRUE, data |-> <<>>, pos |-> 0, closed |-> FALSE, failRead |-> FALSE, failClose |-> FALSE]

\* what is left to read of a stream
Rest(s) == SubSeq(s.data, s.pos + 1, Len(s.data))

\* ioutil.ReadAll(s): "panic" on a nil reader, else (bytes, err)
ReadAll(s) ==
    IF s.nil THEN [panic |-> TRUE, ok |-> FALSE, bytes |-> <<>>]
    ELSE IF s.failRead THEN [panic |-> FALSE, ok |-> FALSE, bytes |-> <<>>]
    ELSE [panic |-> FALSE, ok |-> TRUE, bytes |-> Rest(s)]

(***************************************************************************)
(* url.URL and url.Values (the standard library, as error.go uses it).     *)
(* The raw query is the sequence of its key=value pairs.                   *)
(***************************************************************************)
QueryKeys == {"access_token", "q", "secret"}
\* url.Values.Encode writes the keys in sorted order
SortedKeys == <<"access_token", "q", "secret">>

URL(path, rawQuery) == [path |-> path, rawQuery |-> rawQuery]
EmptyURL == URL("", <<>>)

\* a segment of a raw query that QueryUnescape rejects: %zz
BadSegment == <<"%zz", "">>

\* u.Query(): key -> the values of the key, in order of appearance; ParseQuery
\* skips a segment it cannot unescape, and Query drops ParseQuery's error
RECURSIVE ParseQuery(_, _)
ParseQuery(raw, m) ==
    IF Len(raw) = 0 THEN m
    ELSE IF raw[1] = BadSegment THEN ParseQuery(Tail(raw), m)
    ELSE ParseQuery(Tail(raw), [m EXCEPT ![raw[1][1]] = Append(@, raw[1][2])])

Query(u) == ParseQuery(u.rawQuery, [k \in QueryKeys |-> <<>>])

\* Values.Get: the first value of the key, "" when there is none
Get(q, key) == IF Len(q[key]) = 0 THEN "" ELSE q[key][1]

\* Values.Set: replaces every value of the key
Set(q, key, value) == [q EXCEPT ![key] = <<value>>]

RECURSIVE EncodeFrom(_, _)
EncodeFrom(q, i) ==
    IF i > Len(SortedKeys) THEN <<>>
    ELSE [j \in 1..Len(q[SortedKeys[i]]) |-> <<SortedKeys[i], q[SortedKeys[i]][j]>>]
         \o EncodeFrom(q, i + 1)

\* Values.Encode
Encode(q) == EncodeFrom(q, 1)

\* the text of a segment of a raw query
SegmentText(kv) == IF kv = BadSegment THEN <<kv[1]>> ELSE <<kv[1], "=", kv[2]>>

\* the text of a raw query: k=v&k=v
RECURSIVE QueryText(_)
QueryText(raw) ==
    IF Len(raw) = 0 THEN <<>>
    ELSE IF Len(raw) = 1 THEN SegmentText(raw[1])
    ELSE SegmentText(raw[1]) \o <<"&">> \o QueryText(Tail(raw))

\* u.String()
URLString(u) ==
    (IF u.path = "" THEN <<>> ELSE <<u.path>>)
    \o (IF Len(u.rawQuery) = 0 THEN <<>> ELSE <<"?">> \o QueryText(u.rawQuery))

(***************************************************************************)
(* Errors.  Every error value has the fields of HTTPErr; type tells what   *)
(* it is: "nil", "errorString" (errors.New), "HTTPErr", "ctx" (ctx.Err())  *)
(* or "panic" (the call did not return).                                   *)
(***************************************************************************)
ErrValue(type, errMsg) ==
    [type |-> type, errMsg |-> errMsg, caller |-> "", u |-> EmptyURL, method |-> "",
     respBody |-> <<>>, reqBody |-> <<>>, statusCode |-> 0,
     retry |-> FALSE, notFound |-> FALSE, exists |-> FALSE]

NilErr == ErrValue("nil", "")
ErrInvalidEncodeFn == ErrValue("errorString", "no encode fn provided for body")
Panic == ErrValue("panic", "invalid memory address or nil pointer dereference")
CtxErr(kind) == ErrValue("ctx", kind)

\* err.(retrier): only *HTTPErr has a Retry method among the errors Do returns
IsRetrier(x) == x.type = "HTTPErr"

\* the errors handed to Err(): a message, and whether the value has a Retry method
InnerErr(msg, hasRetry, retryFlag) == [nil |-> FALSE, msg |-> msg, retrier |-> hasRetry, retry |-> retryFlag]
NilInnerErr == [nil |-> TRUE, msg |-> "", retrier |-> FALSE, retry |-> FALSE]

isRetryErr(x) ==
    IF x.nil THEN FALSE
    ELSE x.retrier /\ x.retry

(***************************************************************************)
(* http.Request and http.Response as error.go and request.go read them.    *)
(***************************************************************************)
\* an http.Header: canonical key -> the values of the key; Get and Set as for url.Values
HeaderKeys == {"Authorization", "Content-Type", "X-Key"}
EmptyHeader == [k \in HeaderKeys |-> <<>>]

\* textproto.CanonicalMIMEHeaderKey, on the keys of the model
CanonicalMIMEHeaderKey(k) ==
    CASE k \in {"content-type", "Content-Type"} -> "Content-Type"
      [] k \in {"x-key", "X-Key"} -> "X-Key"
      [] k \in {"authorization", "Authorization"} -> "Authorization"

\* Header.Add: appends a value to the values of the key
Add(h, key, value) == [h EXCEPT ![key] = Append(@, value)]

HTTPRequest(method, u, header, body) ==
    [nil |-> FALSE, Method |-> method, URL |-> u, Header |-> header, Body |-> body]
NilRequest == [nil |-> TRUE, Method |-> "", URL |-> EmptyURL, Header |-> EmptyHeader, Body |-> NilStream]

HTTPResponse(status, body, req) == [nil |-> FALSE, StatusCode |-> status, Body |-> body, Request |-> req]
NilResponse == [nil |-> TRUE, StatusCode |-> 0, Body |-> NilStream, Request |-> NilRequest]

\* strings.Contains(v, "application/json")
JSONTypes == {"application/json", "application/json; charset=utf-8"}

(***************************************************************************)
(* NewClientErr and the ErrOptFn options (error.go).                       *)
(***************************************************************************)
errOpt == [retry |-> FALSE, notFound |-> FALSE, exists |-> FALSE,
           err |-> NilInnerErr, caller |-> "", resp |-> NilResponse]

ErrOptFn(op, x, c, resp) == [op |-> op, err |-> x, caller |-> c, resp |-> resp]
Op(c) == ErrOptFn("Op", NilInnerErr, c, NilResponse)
Err(x) == ErrOptFn("Err", x, "", NilResponse)
Resp(resp) == ErrOptFn("Resp", NilInnerErr, "", resp)
Retry == ErrOptFn("Retry", NilInnerErr, "", NilResponse)
NotFound == ErrOptFn("NotFound", NilInnerErr, "", NilResponse)
Exists == ErrOptFn("Exists", NilInnerErr, "", NilResponse)

\* o(opt)
ApplyErrOpt(o, opt) ==
    CASE o.op = "Op" -> [opt EXCEPT !.caller = o.caller]
      [] o.op = "Err" -> [opt EXCEPT !.err = o.err]
      [] o.op = "Resp" -> [opt EXCEPT !.resp = o.resp]
      [] o.op = "Retry" -> [opt EXCEPT !.retry = TRUE]
      [] o.op = "NotFound" -> [opt EXCEPT !.notFound = TRUE]
      [] o.op = "Exists" -> [opt EXCEPT !.exists = TRUE]

RECURSIVE ApplyErrOpts(_, _)
ApplyErrOpts(opts, opt) ==
    IF Len(opts) = 0 THEN opt
    ELSE ApplyErrOpts(Tail(opts), ApplyErrOpt(opts[1], opt))

NewClientErr(opts) ==
    LET opt == ApplyErrOpts(opts, errOpt)
        e0 == [ErrValue("HTTPErr", "received unexpected response") EXCEPT
                 !.notFound = opt.notFound, !.exists = opt.exists,
                 !.retry = opt.retry, !.caller = opt.caller]
        e1 == IF ~opt.err.nil THEN [e0 EXCEPT !.errMsg = opt.err.msg] ELSE e0
        req == opt.resp.Request
        isJSON == ~req.nil /\ Get(req.Header, "Content-Type") \in JSONTypes
        reqRead == ReadAll(req.Body)
        e2 == IF req.nil THEN e1
              ELSE [e1 EXCEPT !.u = req.URL, !.method = req.Method,
                              !.respBody = IF isJSON /\ reqRead.ok THEN reqRead.bytes ELSE @]
        e3 == [e2 EXCEPT !.statusCode = opt.resp.StatusCode]
        respRead == ReadAll(opt.resp.Body)
    IN  IF opt.resp.nil THEN e1
        ELSE IF isJSON /\ reqRead.panic THEN Panic
        ELSE IF respRead.panic THEN Panic
        ELSE IF respRead.ok THEN [e3 EXCEPT !.respBody = respRead.bytes]
        ELSE e3

(***************************************************************************)
(* The diagnostic text of an HTTPErr (error.go).  errorBase writes the     *)
(* redacted query back into e.u, so it yields a text and a new e.          *)
(***************************************************************************)
Redacted(u) ==
    LET q0 == Query(u)
        q1 == IF Get(q0, "access_token") # "" THEN Set(q0, "access_token", "REDACTED") ELSE q0
        q2 == IF Get(q1, "secret") # "" THEN Set(q1, "secret", "REDACTED") ELSE q1
    IN  [u EXCEPT !.rawQuery = Encode(q2)]

\* the HTTPErr after a call of errorBase
errorBaseEffect(x) ==
    IF URLString(x.u) # <<>> THEN [x EXCEPT !.u = Redacted(x.u)] ELSE x

\* the string errorBase returns
errorBase(x) ==
    Join((IF x.statusCode # 0 THEN << <<"status=", ToString(x.statusCode)>> >> ELSE <<>>)
         \o (IF x.method # "" THEN << <<"method=", x.method>> >> ELSE <<>>)
         \o (IF URLString(x.u) # <<>>
             THEN << <<"url=", "\"">> \o URLString(Redacted(x.u)) \o <<"\"">> >>
             ELSE <<>>),
         <<" ">>)

\* e.Error()
Error(x) ==
    Join(<<errorBase(x)>>
         \o (IF x.errMsg # "" THEN << <<"err=", "\"", x.errMsg, "\"">> >> ELSE <<>>)
         \o (IF x.respBody # <<>> THEN << <<"response_body=", "\"">> \o x.respBody \o <<"\"">> >> ELSE <<>>)
         \o (IF x.reqBody # <<>> THEN << <<"request_body=", "\"">> \o x.reqBody \o <<"\"">> >> ELSE <<>>),
         <<" ">>)

\* e.BackoffMessage()
BackoffMessage(x) == errorBase(x)

(***************************************************************************)
(* The Request and one attempt, Request.do (request.go).                   *)
(* The functions a Request holds are modelled by what they do when called: *)
(*   encodeFn       "nil", "ok", "fail"                                    *)
(*   decodeFn,                                                             *)
(*   onErrorFn      "nil", "ok", "fail", "failRetry" (the error has a      *)
(*                  Retry method returning true)                           *)
(*   responseErrFn  "nil", "same" (returns its argument), "retry" (wraps   *)
(*                  it in an error whose Retry method returns true)        *)
(*   authFn         "nil", "basic", "bearer"                               *)
(*   doer           "fake" (the Doer of the tests: a response with a       *)
(*                  readable body and no Request), "net" (a response that  *)
(*                  carries the request sent, with a body whose Read or    *)
(*                  Close may fail)                                        *)
(***************************************************************************)
kvPair(key, value) == [key |-> key, value |-> value]

Request(method, addr, doer, headers, authFn, encodeFn, backoff) ==
    [Method |-> method, Addr |-> addr, doer |-> doer, body |-> "nil",
     headers |-> headers, params |-> <<>>,
     authFn |-> authFn, encodeFn |-> encodeFn, decodeFn |-> "nil",
     onErrorFn |-> "nil", responseErrFn |-> "nil",
     notFoundFns |-> <<>>, existsFns |-> <<>>, retryStatusFns |-> <<>>, successFns |-> <<>>,
     backoff |-> backoff]

\* the methods http.NewRequest accepts
ValidMethods == {"GET", "POST", "PUT", "PATCH", "DELETE"}

EncodeErr == InnerErr("encode failed", FALSE, FALSE)
NewRequestErr == InnerErr("net/http: invalid method", FALSE, FALSE)
DecodeErr(fn) == InnerErr("decode failed", fn = "failRetry", fn = "failRetry")

\* the loop over r.headers keeping the first value of a key
RECURSIVE SetHeadersFirst(_, _)
SetHeadersFirst(h, pairs) ==
    IF Len(pairs) = 0 THEN h
    ELSE SetHeadersFirst(IF Len(h[CanonicalMIMEHeaderKey(pairs[1].key)]) = 0
                         THEN Set(h, CanonicalMIMEHeaderKey(pairs[1].key), pairs[1].value)
                         ELSE h,
                         Tail(pairs))

\* for _, pair := range r.headers { req.Header.Set(pair.key, pair.value) }
RECURSIVE SetHeaders(_, _)
SetHeaders(h, pairs) ==
    IF Len(pairs) = 0 THEN h
    ELSE SetHeaders(Set(h, CanonicalMIMEHeaderKey(pairs[1].key), pairs[1].value), Tail(pairs))

\* for _, kv := range r.params { params.Set(kv.key, kv.value) }
RECURSIVE SetParams(_, _)
SetParams(q, pairs) ==
    IF Len(pairs) = 0 THEN q
    ELSE SetParams(Set(q, pairs[1].key, pairs[1].value), Tail(pairs))

\* r.authFn(req): BasicAuth sets the Authorization header, BearerTokenAuth adds to it
ApplyAuth(authFn, h) ==
    CASE authFn = "nil" -> h
      [] authFn = "basic" -> Set(h, "Authorization", "Basic")
      [] authFn = "bearer" -> Add(h, "Authorization", "Bearer")

\* the *http.Request handed to the Doer
WireRequest(req) ==
    HTTPRequest(req.Method,
                IF Len(req.params) > 0
                THEN [req.Addr EXCEPT !.rawQuery = Encode(SetParams(Query(req.Addr), req.params))]
                ELSE req.Addr,
                ApplyAuth(req.authFn, SetHeaders(EmptyHeader, req.headers)),
                IF req.body = "nil" THEN NilStream ELSE Stream(<<req.body>>, FALSE))

\* statusErrOpts matching the not-found flag against the retry list
statusErrOptsCopied(req, status) ==
    (IF statusMatches(status, req.retryStatusFns) THEN <<Retry>> ELSE <<>>)
    \o (IF statusMatches(status, req.retryStatusFns) THEN <<NotFound>> ELSE <<>>)
    \o (IF statusMatches(status, req.existsFns) THEN <<Exists>> ELSE <<>>)

statusErrOpts(req, status) ==
    (IF statusMatches(status, req.retryStatusFns) THEN <<Retry>> ELSE <<>>)
    \o (IF statusMatches(status, req.notFoundFns) THEN <<NotFound>> ELSE <<>>)
    \o (IF statusMatches(status, req.existsFns) THEN <<Exists>> ELSE <<>>)

\* responseErr flagging every transport failure retryable
responseErrAlwaysRetry(req, resp, x) ==
    LET x1 == CASE req.responseErrFn = "nil" -> x
                [] req.responseErrFn = "same" -> x
                [] req.responseErrFn = "retry" -> InnerErr(x.msg, TRUE, TRUE)
    IN  NewClientErr(<<Err(x1), Resp(resp), Retry>>)

responseErr(req, resp, x) ==
    LET x1 == CASE req.responseErrFn = "nil" -> x
                [] req.responseErrFn = "same" -> x
                [] req.responseErrFn = "retry" -> InnerErr(x.msg, TRUE, TRUE)
    IN  NewClientErr(<<Err(x1), Resp(resp)>> \o (IF isRetryErr(x1) THEN <<Retry>> ELSE <<>>))

\* the options of a status mismatch with the Retry() of the decoder's error added
onErrorOptsRetryErr(req, resp, status, x) ==
    <<Resp(resp)>> \o statusErrOpts(req, status)
    \o (IF x.nil THEN <<>> ELSE <<Err(x)>>)
    \o (IF isRetryErr(x) THEN <<Retry>> ELSE <<>>)

\* opts := append([]ErrOptFn{Resp(resp)}, r.statusErrOpts(status)...)
\* if err := r.onErrorFn(tee); err != nil { opts = append(opts, Err(err)) }
onErrorOpts(req, resp, status, x) ==
    <<Resp(resp)>> \o statusErrOpts(req, status)
    \o (IF x.nil THEN <<>> ELSE <<Err(x)>>)

\* the options of a decode failure with the flags of the status added
decodeErrOptsWithStatus(req, resp, x) ==
    <<Err(x), Resp(resp)>> \o statusErrOpts(req, resp.StatusCode)

\* opts := []ErrOptFn{Err(err), Resp(resp)}; if isRetryErr(err) { opts = append(opts, Retry()) }
decodeErrOpts(req, resp, x) ==
    <<Err(x), Resp(resp)>> \o (IF isRetryErr(x) THEN <<Retry>> ELSE <<>>)

\* a reader after a decoder asked it for k more bytes
Consume(s, k) ==
    IF s.failRead THEN s
    ELSE [s EXCEPT !.pos = IF @ + k > Len(s.data) THEN Len(s.data) ELSE @ + k]

\* drain(body): io.Copy(ioutil.Discard, body); body.Close()
drain(s) == [s EXCEPT !.pos = IF s.failRead THEN @ ELSE Len(s.data), !.closed = TRUE]

\* the msgs drain(body) collects for the error it returns
drainMsgs(s) ==
    (IF s.failRead THEN <<"read failed">> ELSE <<>>)
    \o (IF s.failClose THEN <<"close failed">> ELSE <<>>)

\* What the outside does during one attempt:
\*   doErr     the error of Doer.Do (nil: it returned resp)
\*   resp      the response of Doer.Do
\*   consume   how many bytes the decoder called on the body reads
Env(doErr, resp, consume) == [doErr |-> doErr, resp |-> resp, consume |-> consume]

DoResult(x, dispatched, body, transformed, discarded) ==
    [err |-> x, dispatched |-> dispatched, body |-> body, transformed |-> transformed,
     discarded |-> discarded]

\* r.do(ctx): the error returned, whether the Doer was called, the final state of
\* the body stream the Doer returned, the number of responseErrFn calls, and the
\* msgs of the error the deferred drain returned to nobody
do(req, env) ==
    IF req.body # "nil" /\ req.encodeFn = "nil"
    THEN DoResult(ErrInvalidEncodeFn, 0, NilStream, 0, <<>>)
    ELSE IF req.body # "nil" /\ req.encodeFn = "fail"
    THEN DoResult(NewClientErr(<<Err(EncodeErr)>>), 0, NilStream, 0, <<>>)
    ELSE IF req.Method \notin ValidMethods
    THEN DoResult(NewClientErr(<<Err(NewRequestErr)>>), 0, NilStream, 0, <<>>)
    ELSE IF ~env.doErr.nil
    THEN DoResult(responseErr(req, env.resp, env.doErr), 1, env.resp.Body,
                  IF req.responseErrFn = "nil" THEN 0 ELSE 1, <<>>)
    ELSE
    LET resp == env.resp
        status == resp.StatusCode
    IN  IF ~statusMatches(status, req.successFns)
        THEN IF req.onErrorFn # "nil"
             THEN \* tee := io.TeeReader(resp.Body, &buf); resp.Body = ioutil.NopCloser(&buf)
                  LET read == Consume(resp.Body, env.consume)
                      buf == Stream(SubSeq(resp.Body.data, resp.Body.pos + 1, read.pos), FALSE)
                      opts == onErrorOpts(req, [resp EXCEPT !.Body = buf], status,
                                          IF req.onErrorFn = "ok" THEN NilInnerErr
                                          ELSE DecodeErr(req.onErrorFn))
                  IN  \* the deferred drain closes the replaced resp.Body, the buffer
                      DoResult(NewClientErr(opts), 1, read, 0, drainMsgs(buf))
             ELSE DoResult(NewClientErr(<<Resp(resp)>> \o statusErrOpts(req, status)), 1,
                           drain(resp.Body), 0, drainMsgs(resp.Body))
        ELSE IF req.decodeFn = "nil"
        THEN DoResult(NilErr, 1, drain(resp.Body), 0, drainMsgs(resp.Body))
        ELSE LET read == Consume(resp.Body, env.consume)
             IN  IF req.decodeFn = "ok"
                 THEN DoResult(NilErr, 1, drain(read), 0, drainMsgs(read))
                 ELSE DoResult(NewClientErr(decodeErrOpts(req, [resp EXCEPT !.Body = read],
                                                          DecodeErr(req.decodeFn))),
                               1, drain(read), 0, drainMsgs(read))

(***************************************************************************)
(* Spec: one call of Request.Do, that is retry(ctx, r.do, r.backoff)       *)
(* (backoff.go), with the caller's context and the timer of time.After as  *)
(* the two concurrent parties of the select.                               *)
(***************************************************************************)
CtxErrs == {"context canceled", "context deadline exceeded"}

\* the policies a call is checked with
Intervals == {0, 1}
ExpTimeouts == {<<0, 3 * Millisecond>>, <<Millisecond \div 2, 2 * Millisecond>>,
                <<Millisecond, 3 * Millisecond>>, <<Millisecond, 8 * Millisecond>>,
                <<2 * Millisecond, 2 * Millisecond>>}
TickLists == {<<>>, <<2>>, <<3, 0, 1, 2, 1>>}

Backoffs ==
    { NewZeroBackoff(k) : k \in 0..MaxCalls }
    \cup { NewStopBackoff }
    \cup { NewConstantBackoff(i, k) : i \in Intervals, k \in 0..MaxCalls }
    \cup { NewExponentialBackoff(tm[1], tm[2], k) : tm \in ExpTimeouts, k \in 0..MaxCalls }
    \cup { NewSimpleBackoff(k, j, ticks) : k \in 0..MaxCalls, j \in BOOLEAN, ticks \in TickLists }

\* DELETE /foo, success on 204, retry on 404 and 500, not found on 404, exists on 422
BaseRequest(b) ==
    [Request("DELETE", URL("/foo", <<>>), "fake", <<>>, "nil", "ok", b) EXCEPT
        !.successFns = <<StatusNoContent>>,
        !.retryStatusFns = <<StatusNotFound, StatusInternalServerError>>,
        !.notFoundFns = <<StatusNotFound>>,
        !.existsFns = <<StatusUnprocessableEntity>>]

\* the policies the variants of the base request are checked with
FewBackoffs == {NewStopBackoff, NewZeroBackoff(0), NewConstantBackoff(1, 2)}

DoRequests ==
    UNION { { BaseRequest(b),
              [BaseRequest(b) EXCEPT !.body = "v", !.encodeFn = "nil"],
              [BaseRequest(b) EXCEPT !.body = "v", !.encodeFn = "fail"],
              [BaseRequest(b) EXCEPT !.Method = "B@D"] } : b \in Backoffs }
    \cup
    UNION { { [BaseRequest(b) EXCEPT !.body = "v",
                                     !.headers = <<kvPair("Content-Type", "application/json")>>],
              [BaseRequest(b) EXCEPT !.responseErrFn = "same"],
              [BaseRequest(b) EXCEPT !.responseErrFn = "retry"],
              [BaseRequest(b) EXCEPT !.decodeFn = "fail"],
              [BaseRequest(b) EXCEPT !.decodeFn = "failRetry"],
              [BaseRequest(b) EXCEPT !.onErrorFn = "fail"] } : b \in FewBackoffs }

\* the request as the Doer leaves it: a body that was sent has been read to its end
SentRequest(w) == [w EXCEPT !.Body = IF @.nil THEN @ ELSE drain(@)]

\* the errors of Doer.Do: errors.New("unexpected error"), and an error with a
\* Retry method returning true
TransportErrs == {InnerErr("unexpected error", FALSE, FALSE), InnerErr("timeout", TRUE, TRUE)}
RespBody == <<"b1", "b2">>

\* the bodies of the responses of the "net" Doer
NetBodies == {Stream(<<>>, FALSE), Stream(RespBody, FALSE), Stream(RespBody, TRUE),
              [Stream(RespBody, FALSE) EXCEPT !.failClose = TRUE]}

\* what the Doer and the decoders can do in an attempt of a call
DoEnvs(req) ==
    IF req.doer = "fake"
    THEN { Env(x, NilResponse, 0) : x \in TransportErrs }
         \cup { Env(NilInnerErr, HTTPResponse(s, Stream(RespBody, FALSE), NilRequest), k) :
                  s \in Statuses, k \in {0, Len(RespBody)} }
    ELSE { Env(x, NilResponse, 0) : x \in TransportErrs }
         \cup { Env(NilInnerErr, HTTPResponse(s, b, SentRequest(WireRequest(req))), k) :
                  s \in {StatusNoContentCode, StatusNotFoundCode}, b \in NetBodies,
                  k \in 0..Len(RespBody) }

\* the context before retry() attaches an attempt number to it
Background == [num |-> 0, ok |-> FALSE]

\* context.WithValue(ctx, backoffNumKey, n) attaching n + 1
WithValueNext(k) == [num |-> k + 1, ok |-> TRUE]

\* context.WithValue(ctx, backoffNumKey, n)
WithValue(k) == [num |-> k, ok |-> TRUE]

\* Attempt(ctx): attempNum, ok := ctx.Value(backoffNumKey).(int)
AttemptNum(c) == <<c.num, c.ok>>

\* retry() returning only on success: a failure is retried whatever its Retry() says
retryReturnsOnlyNil(x) == x.type = "nil"

\* retry() returning also a failure whose NotFound() or Exists() is true
retryReturnsOnFlags(x) == x.type = "nil" \/ (IsRetrier(x) /\ (~x.retry \/ x.notFound \/ x.exists))

\* retry() without the err == nil check
retryReturnsNoNilCheck(x) == IsRetrier(x) /\ ~x.retry

\* retry(): the two checks on what fn returned,
\*   if err == nil { return nil }
\*   if r, ok := err.(retrier); ok && !r.Retry() { return err }
retryReturns(x) == x.type = "nil" \/ (IsRetrier(x) /\ ~x.retry)

\* retry() returning the last failure when the context is done
ctxDoneReturnLastErr(lastErr, kind) == lastErr

\* retry(): case <-ctx.Done(): return ctx.Err()
ctxDoneReturn(lastErr, kind) == CtxErr(kind)

\* retry() asking the context before it returns the failure on a stop
stopReturnCtxFirst(lastErr, kind) == IF kind = "none" THEN lastErr ELSE CtxErr(kind)

\* retry(): if !retry { return err }
stopReturn(lastErr, kind) == lastErr

Obs0 ==
    [calls |-> 0,             \* invocations of fn (attempts)
     nextCalls |-> 0,         \* calls of backoffPolicy.Next
     selects |-> 0,           \* waits begun
     allRetry |-> TRUE,       \* every attempt so far returned a failure whose Retry() is true
     first |-> NilErr,        \* what the first attempt returned
     last |-> NilErr,         \* what the last attempt returned
     status |-> 0,            \* the status of the last response of the Doer, 0 without one
     cancelBlocked |-> FALSE, \* the context was done while the loop was blocked in a wait
     cancelAtWait |-> FALSE,  \* the context was already done when the last wait began
     callsAtCancel |-> 0,     \* attempts made when the context was done
     doCallsAtCancel |-> 0,   \* dispatches made when the context was done
     fns |-> [successFns |-> {}, retryStatusFns |-> {},   \* the StatusFns handed to the
              notFoundFns |-> {}, existsFns |-> {}],      \* builder, per list
     rawQuery |-> <<>>,       \* the query of the URL an HTTPErr was built from
     attempt |-> AttemptNum(Background),  \* what Attempt(ctx) returned in the last attempt
     transforms |-> 0,        \* calls of responseErrFn
     doErr |-> NilInnerErr,   \* the error of the last Doer.Do
     sent |-> NilRequest,     \* the request handed to the Doer in the last attempt
     body |-> NilStream,      \* the body of the last response, as the attempt left it
     discarded |-> <<>>,      \* the msgs of the last deferred drain
     nClient |-> 0,           \* how many of r.headers come from the Client
     again |-> 0,             \* calls of Do after the first
     lastRetry |-> TRUE,      \* the flag the last call of Next returned
     stoppedAt |-> 0,         \* the first attempt number Next returned stop for, 0 for none
     doCallsAtDo |-> 0,       \* dispatches made when the running call of Do began
     jitter |-> <<>>,         \* the last call of jitter: <<millis, what it returned>>
     made |-> NilErr,         \* the HTTPErr as NewClientErr returned it
     errorText |-> <<>>,      \* <<the string the first call of Error() returned>>
     saidBy |-> "",           \* the method that produced out: "Error", "BackoffMessage"
     client |-> <<>>,         \* the Client the Requests were made from (SpecShare)
     decided |-> <<>>]        \* per attempt number, what Next returned for it (SpecCallers)

Init ==
    /\ r \in DoRequests
    /\ pc = "build"
    /\ n = 0
    /\ err = NilErr
    /\ wait = 0
    /\ timer = "none"
    /\ ctxErr = "none"
    /\ doCallCount = 0
    /\ obs = Obs0
    /\ e = NilErr
    /\ out = <<>>

\* r.Do(ctx): retry(ctx, r.do, r.backoff) begins, with var err error; var n int
Do ==
    /\ pc = "build"
    /\ pc' = "attempt"
    /\ n' = 0
    /\ err' = NilErr
    /\ UNCHANGED <<r, wait, timer, ctxErr, doCallCount, obs, e, out>>

\* One iteration of the loop up to the select: fn(ctx), the two checks on err,
\* n++ and backoffPolicy.Next(n).
Attempt ==
    /\ pc = "attempt"
    /\ obs.calls < MaxAttempts
    /\ \E env \in DoEnvs(r) : \E res \in {do(r, env)} : \E x \in {res.err} :
         \E o1 \in {[obs EXCEPT !.calls = @ + 1,
                                !.allRetry = @ /\ IsRetrier(x) /\ x.retry,
                                !.first = IF obs.calls = 0 THEN x ELSE @,
                                !.last = x,
                                !.status = IF res.dispatched = 1 THEN env.resp.StatusCode ELSE 0,
                                !.attempt = AttemptNum(WithValue(n)),
                                !.transforms = @ + res.transformed,
                                !.doErr = IF res.dispatched = 1 THEN env.doErr ELSE NilInnerErr,
                                !.sent = IF res.dispatched = 1 THEN WireRequest(r) ELSE NilRequest,
                                !.body = res.body,
                                !.discarded = res.discarded]} :
             /\ doCallCount' = doCallCount + res.dispatched
             /\ IF x.type = "panic"
                THEN /\ pc' = "panic"
                     /\ err' = x
                     /\ obs' = o1
                     /\ UNCHANGED <<n, wait, timer>>
                ELSE IF retryReturns(x)
                THEN /\ pc' = "done"
                     /\ err' = x
                     /\ obs' = o1
                     /\ UNCHANGED <<n, wait, timer>>
                ELSE /\ n' = n + 1
                     /\ \E nr \in BackoffNext(r.backoff, n + 1) :
                          IF ~nr.retry
                          THEN /\ pc' = "done"
                               /\ err' = stopReturn(x, ctxErr)
                               /\ obs' = [o1 EXCEPT !.nextCalls = @ + 1]
                               /\ UNCHANGED <<wait, timer>>
                          ELSE /\ pc' = "select"
                               /\ err' = x
                               /\ wait' = nr.wait
                               /\ timer' = "pending"
                               /\ obs' = [o1 EXCEPT !.nextCalls = @ + 1, !.selects = @ + 1,
                                                    !.cancelAtWait = (ctxErr # "none")]
    /\ UNCHANGED <<r, ctxErr, e, out>>

\* select { case <-ctx.Done(): return ctx.Err(); case <-time.After(wait): }
\* entered: a ready case is taken, any one of them when both are ready;
\* with no case ready the loop blocks.
Select ==
    /\ pc = "select"
    /\ LET ready == (IF ctxErr # "none" THEN {"ctx"} ELSE {})
                    \cup (IF timer = "fired" THEN {"timer"} ELSE {})
       IN  IF ready = {}
           THEN /\ pc' = "blocked"
                /\ UNCHANGED <<err, timer>>
           ELSE \E c \in ready :
                  IF c = "ctx"
                  THEN /\ pc' = "done"
                       /\ err' = ctxDoneReturn(err, ctxErr)
                       /\ UNCHANGED timer
                  ELSE /\ pc' = "attempt"
                       /\ timer' = "none"
                       /\ UNCHANGED err
    /\ UNCHANGED <<r, n, wait, ctxErr, doCallCount, obs, e, out>>

\* the timer of time.After(wait) fires; a loop blocked in the select goes on
TimerFire ==
    /\ timer = "pending"
    /\ IF pc = "blocked"
       THEN /\ pc' = "attempt"
            /\ timer' = "none"
       ELSE /\ timer' = "fired"
            /\ UNCHANGED pc
    /\ UNCHANGED <<r, n, err, wait, ctxErr, doCallCount, obs, e, out>>

\* the caller's context is cancelled or its deadline passes; a loop blocked in
\* the select returns ctx.Err()
Cancel ==
    /\ ctxErr = "none"
    /\ pc \in {"build", "attempt", "select", "blocked"}
    /\ \E kind \in CtxErrs :
         /\ ctxErr' = kind
         /\ IF pc = "blocked"
            THEN /\ pc' = "done"
                 /\ err' = ctxDoneReturn(err, kind)
            ELSE UNCHANGED <<pc, err>>
    /\ obs' = [obs EXCEPT !.cancelBlocked = (pc = "blocked"),
                          !.callsAtCancel = obs.calls,
                          !.doCallsAtCancel = doCallCount]
    /\ UNCHANGED <<r, n, wait, timer, doCallCount, e, out>>

Next == Do \/ Attempt \/ Select \/ TimerFire \/ Cancel

Spec == Init /\ [][Next]_vars

TypeOK ==
    /\ pc \in {"build", "attempt", "select", "blocked", "done", "panic", "err", "said", "policy"}
    /\ n \in 0..MaxAttempts
    /\ doCallCount \in 0..MaxAttempts
    /\ timer \in {"none", "pending", "fired"}

(***************************************************************************)
(* SpecBuild: a Request made by Client.Req, the builder calls that add     *)
(* StatusFns to it, and Do under the client's default StopBackoff.         *)
(***************************************************************************)
\* the ClientOptFns: what they set on the Client
ClientOptFn(op, key, value, b) == [op |-> op, key |-> key, value |-> value, backoff |-> b]
WithBackoff(b) == ClientOptFn("WithBackoff", "", "", b)
WithContentType(cType) == ClientOptFn("WithContentType", "Content-Type", cType, NewStopBackoff)
WithHeader(key, value) == ClientOptFn("WithHeader", key, value, NewStopBackoff)

\* o(c)
ApplyClientOpt(o, c) ==
    CASE o.op = "WithBackoff" -> [c EXCEPT !.backoff = o.backoff]
      [] o.op = "WithContentType" -> [c EXCEPT !.headers = Append(@, kvPair(o.key, o.value))]
      [] o.op = "WithHeader" -> [c EXCEPT !.headers = Append(@, kvPair(o.key, o.value))]

RECURSIVE ApplyClientOpts(_, _)
ApplyClientOpts(opts, c) ==
    IF Len(opts) = 0 THEN c
    ELSE ApplyClientOpts(Tail(opts), ApplyClientOpt(opts[1], c))

\* New(doer, opts...) with a default policy that retries without end
NewRetrying(doer, opts) ==
    ApplyClientOpts(opts, [baseURL |-> "", doer |-> doer, headers |-> <<>>, authFn |-> "nil",
                           encodeFn |-> "ok", backoff |-> NewZeroBackoff(0)])

\* New(doer, opts...)
New(doer, opts) ==
    ApplyClientOpts(opts, [baseURL |-> "", doer |-> doer, headers |-> <<>>, authFn |-> "nil",
                           encodeFn |-> "ok", backoff |-> NewStopBackoff])

\* c.Req(method, addr), for an addr that begins with "/"
Req(c, method, addr) ==
    Request(method, addr, c.doer, c.headers, c.authFn, c.encodeFn, c.backoff)

\* the StatusFns the builder is called with
BuildFns == {StatusNotFound, StatusInRange(400, 499), StatusNotIn(<<StatusNoContentCode, StatusNotFoundCode>>),
             StatusIn(<<StatusUnprocessableEntityCode, StatusInternalServerErrorCode>>),
             StatusNot(StatusInternalServerErrorCode)}

FnCount == Len(r.successFns) + Len(r.retryStatusFns) + Len(r.notFoundFns) + Len(r.existsFns)

InitBuild ==
    /\ r = Req(New("fake", <<>>), "DELETE", URL("/foo", <<>>))
    /\ pc = "build"
    /\ n = 0
    /\ err = NilErr
    /\ wait = 0
    /\ timer = "none"
    /\ ctxErr = "none"
    /\ doCallCount = 0
    /\ obs = Obs0
    /\ e = NilErr
    /\ out = <<>>

\* r.Success(fn)
ReqSuccess ==
    /\ pc = "build" /\ FnCount < MaxFns
    /\ \E fn \in BuildFns :
         /\ r' = [r EXCEPT !.successFns = Append(@, fn)]
         /\ obs' = [obs EXCEPT !.fns.successFns = @ \cup {fn}]
    /\ UNCHANGED <<pc, n, err, wait, timer, ctxErr, doCallCount, e, out>>

\* r.Retry(RetryStatus(fn))
ReqRetryStatus ==
    /\ pc = "build" /\ FnCount < MaxFns
    /\ \E fn \in BuildFns :
         /\ r' = [r EXCEPT !.retryStatusFns = Append(@, fn)]
         /\ obs' = [obs EXCEPT !.fns.retryStatusFns = @ \cup {fn}]
    /\ UNCHANGED <<pc, n, err, wait, timer, ctxErr, doCallCount, e, out>>

\* r.NotFound(fn)
ReqNotFound ==
    /\ pc = "build" /\ FnCount < MaxFns
    /\ \E fn \in BuildFns :
         /\ r' = [r EXCEPT !.notFoundFns = Append(@, fn)]
         /\ obs' = [obs EXCEPT !.fns.notFoundFns = @ \cup {fn}]
    /\ UNCHANGED <<pc, n, err, wait, timer, ctxErr, doCallCount, e, out>>

\* r.Exists(fn)
ReqExists ==
    /\ pc = "build" /\ FnCount < MaxFns
    /\ \E fn \in BuildFns :
         /\ r' = [r EXCEPT !.existsFns = Append(@, fn)]
         /\ obs' = [obs EXCEPT !.fns.existsFns = @ \cup {fn}]
    /\ UNCHANGED <<pc, n, err, wait, timer, ctxErr, doCallCount, e, out>>

NextBuild == ReqSuccess \/ ReqRetryStatus \/ ReqNotFound \/ ReqExists \/ Do \/ Attempt

SpecBuild == InitBuild /\ [][NextBuild]_vars

(***************************************************************************)
(* SpecErr: an HTTPErr made by NewClientErr from a response, and the calls *)
(* of its Error and BackoffMessage methods.                                *)
(***************************************************************************)
SecretKeys == {"access_token", "secret"}
Secret == "XYZ"

\* the key=value pairs of the URLs: a secret key with no value, the secret or
\* another value; the key q never carries the secret
QueryPairs == { <<k, v>> : k \in SecretKeys, v \in {"", Secret, "v"} }
              \cup { <<"q", v>> : v \in {"", "v"} }
              \cup { BadSegment }

RECURSIVE SeqsUpTo(_, _)
SeqsUpTo(S, k) ==
    IF k = 0 THEN { <<>> }
    ELSE SeqsUpTo(S, k - 1) \cup { Append(q, x) : q \in SeqsUpTo(S, k - 1), x \in S }

RawQueries == SeqsUpTo(QueryPairs, MaxPairs)

ReqBody == <<"q1">>

\* the paths of the URLs: /foo, and none (a URL that is a query only)
ErrPaths == {"/foo", ""}

\* the requests the responses answer: DELETE of a path with the query raw,
\* without a body, or with a JSON or a plain text content type and a body or none
ErrRequests(raw) ==
    { HTTPRequest("DELETE", URL(path, raw), EmptyHeader, NilStream) : path \in ErrPaths }
    \cup { HTTPRequest("DELETE", URL(path, raw), Set(EmptyHeader, "Content-Type", cType), b) :
             path \in ErrPaths,
             cType \in {"application/json", "text/plain"},
             b \in {NilStream, Stream(ReqBody, FALSE)} }

\* the options NewClientErr is called with: a response to one of the requests,
\* with or without a cause, with an empty body, a body, or a body whose Read fails;
\* or no response, with or without a cause and flags
ErrOpts(raw) ==
    { (IF withErr THEN <<Err(InnerErr("boom", FALSE, FALSE))>> ELSE <<>>)
      \o <<Resp(HTTPResponse(StatusNotFoundCode, body, req))>>
      : withErr \in BOOLEAN,
        body \in {Stream(<<>>, FALSE), Stream(RespBody, FALSE), Stream(RespBody, TRUE)},
        req \in ErrRequests(raw) }
    \cup { <<>>, <<Err(InnerErr("boom", FALSE, FALSE))>>,
           <<Retry, NotFound, Err(InnerErr("boom", FALSE, FALSE))>>, <<Exists>> }

\* the response among the options, nil when there is none
RespOf(opts) == ApplyErrOpts(opts, errOpt).resp

InitErr ==
    /\ \E raw \in RawQueries : \E opts \in ErrOpts(raw) :
         /\ e = NewClientErr(opts)
         /\ obs = [Obs0 EXCEPT !.rawQuery = IF RespOf(opts).nil THEN <<>> ELSE raw,
                               !.sent = RespOf(opts).Request,
                               !.body = RespOf(opts).Body,
                               !.status = RespOf(opts).StatusCode,
                               !.made = NewClientErr(opts)]
    /\ pc = "err"
    /\ r = BaseRequest(NewStopBackoff)
    /\ n = 0
    /\ err = NilErr
    /\ wait = 0
    /\ timer = "none"
    /\ ctxErr = "none"
    /\ doCallCount = 0
    /\ out = <<>>

\* e.Error()
CallError ==
    /\ pc \in {"err", "said"}
    /\ e.type = "HTTPErr"
    /\ out' = Error(e)
    /\ e' = errorBaseEffect(e)
    /\ pc' = "said"
    /\ obs' = [obs EXCEPT !.saidBy = "Error",
                          !.errorText = IF @ = <<>> THEN <<Error(e)>> ELSE @]
    /\ UNCHANGED <<r, n, err, wait, timer, ctxErr, doCallCount>>

\* e.BackoffMessage()
CallBackoffMessage ==
    /\ pc \in {"err", "said"}
    /\ e.type = "HTTPErr"
    /\ out' = BackoffMessage(e)
    /\ e' = errorBaseEffect(e)
    /\ pc' = "said"
    /\ obs' = [obs EXCEPT !.saidBy = "BackoffMessage"]
    /\ UNCHANGED <<r, n, err, wait, timer, ctxErr, doCallCount>>

NextErr == CallError \/ CallBackoffMessage

SpecErr == InitErr /\ [][NextErr]_vars

(***************************************************************************)
(* SpecDo: one Do under StopBackoff, so one attempt of Request.do, against *)
(* the "net" Doer: with or without decoders, a body and a JSON content     *)
(* type, with bodies whose Read or Close fails, and with decoders that     *)
(* stop reading anywhere.                                                  *)
(***************************************************************************)
DoOnceRequests ==
    { [BaseRequest(NewStopBackoff) EXCEPT !.doer = "net", !.decodeFn = d, !.onErrorFn = oe,
                                          !.headers = h, !.body = b] :
        d \in {"nil", "ok", "fail"}, oe \in {"nil", "ok", "fail"},
        h \in {<<>>, <<kvPair("Content-Type", "application/json")>>}, b \in {"nil", "v"} }

InitDo ==
    /\ r \in DoOnceRequests
    /\ pc = "build"
    /\ n = 0
    /\ err = NilErr
    /\ wait = 0
    /\ timer = "none"
    /\ ctxErr = "none"
    /\ doCallCount = 0
    /\ obs = Obs0
    /\ e = NilErr
    /\ out = <<>>

NextDo == Do \/ Attempt

SpecDo == InitDo /\ [][NextDo]_vars

(***************************************************************************)
(* SpecHdr: a Client made with header options, a Request of it, the        *)
(* builder calls Header, ContentType and QueryParam, and Do.               *)
(***************************************************************************)
ClientHeaderOpts == {WithHeader("X-Key", "a"), WithContentType("text/plain")}
ReqHeaderPairs == {kvPair("X-Key", "a"), kvPair("X-Key", "b"), kvPair("x-key", "c")}
ReqParamPairs == {kvPair("q", "a"), kvPair("q", "b"), kvPair("secret", "a")}

InitHdr ==
    /\ \E opts \in SeqsUpTo(ClientHeaderOpts, MaxHeaders - 1) :
       \E raw \in {<< <<"q", "old">> >>} :
         /\ r = [Req(New("fake", opts), "GET", URL("/foo", raw)) EXCEPT !.successFns = <<StatusOK>>]
         /\ obs = [Obs0 EXCEPT !.nClient = Len(New("fake", opts).headers)]
    /\ pc = "build"
    /\ n = 0
    /\ err = NilErr
    /\ wait = 0
    /\ timer = "none"
    /\ ctxErr = "none"
    /\ doCallCount = 0
    /\ e = NilErr
    /\ out = <<>>

\* r.Header(key, value)
ReqHeader ==
    /\ pc = "build" /\ Len(r.headers) < MaxHeaders
    /\ \E kv \in ReqHeaderPairs : r' = [r EXCEPT !.headers = Append(@, kv)]
    /\ UNCHANGED <<pc, n, err, wait, timer, ctxErr, doCallCount, obs, e, out>>

\* r.ContentType(cType)
ReqContentType ==
    /\ pc = "build" /\ Len(r.headers) < MaxHeaders
    /\ \E cType \in {"application/json"} :
         r' = [r EXCEPT !.headers = Append(@, kvPair("Content-Type", cType))]
    /\ UNCHANGED <<pc, n, err, wait, timer, ctxErr, doCallCount, obs, e, out>>

\* r.QueryParam(key, value)
ReqQueryParam ==
    /\ pc = "build" /\ Len(r.params) < MaxParams
    /\ \E kv \in ReqParamPairs : r' = [r EXCEPT !.params = Append(@, kv)]
    /\ UNCHANGED <<pc, n, err, wait, timer, ctxErr, doCallCount, obs, e, out>>

NextHdr == ReqHeader \/ ReqContentType \/ ReqQueryParam \/ Do \/ Attempt

SpecHdr == InitHdr /\ [][NextHdr]_vars

(***************************************************************************)
(* SpecAgain: Do called on a Request of a Client, and called again after   *)
(* it returned, on the same Request or on another Request of the Client.   *)
(***************************************************************************)
AgainBackoffs ==
    FewBackoffs \cup { NewZeroBackoff(k) : k \in 1..MaxCalls }
    \cup { NewConstantBackoff(1, k) : k \in 1..MaxCalls }

\* c := New(doer, WithBackoff(b)); c.Req(method, path) with the lists of the base request
AgainRequest(b, method, path) ==
    [Req(New("fake", <<WithBackoff(b)>>), method, URL(path, <<>>)) EXCEPT
        !.successFns = <<StatusNoContent>>,
        !.retryStatusFns = <<StatusNotFound, StatusInternalServerError>>,
        !.notFoundFns = <<StatusNotFound>>,
        !.existsFns = <<StatusUnprocessableEntity>>]

InitAgain ==
    /\ r \in { AgainRequest(b, "DELETE", "/foo") : b \in AgainBackoffs }
    /\ pc = "build"
    /\ n = 0
    /\ err = NilErr
    /\ wait = 0
    /\ timer = "none"
    /\ ctxErr = "none"
    /\ doCallCount = 0
    /\ obs = Obs0
    /\ e = NilErr
    /\ out = <<>>

\* Do called once more with the n of the call before
DoAgainSharedCounter ==
    /\ pc = "done"
    /\ obs.again < MaxAgain
    /\ pc' = "attempt"
    /\ err' = NilErr
    /\ \E req \in {r, AgainRequest(r.backoff, "GET", "/bar")} : r' = req
    /\ obs' = [obs EXCEPT !.again = @ + 1, !.calls = 0, !.nextCalls = 0, !.selects = 0,
                          !.allRetry = TRUE, !.first = NilErr, !.last = NilErr,
                          !.attempt = AttemptNum(Background),
                          !.doCallsAtDo = doCallCount]
    /\ UNCHANGED <<n, wait, timer, ctxErr, doCallCount, e, out>>

\* Do(ctx) once more, on the same Request or on another Request of its Client (the
\* same BackoffOptFn): retry begins again with its own var err error; var n int
\* and its own backoffPolicy := b()
DoAgain ==
    /\ pc = "done"
    /\ obs.again < MaxAgain
    /\ pc' = "attempt"
    /\ n' = 0
    /\ err' = NilErr
    /\ \E req \in {r, AgainRequest(r.backoff, "GET", "/bar")} : r' = req
    /\ obs' = [obs EXCEPT !.again = @ + 1, !.calls = 0, !.nextCalls = 0, !.selects = 0,
                          !.allRetry = TRUE, !.first = NilErr, !.last = NilErr,
                          !.attempt = AttemptNum(Background),
                          !.doCallsAtDo = doCallCount]
    /\ UNCHANGED <<wait, timer, ctxErr, doCallCount, e, out>>

NextAgain == Do \/ Attempt \/ Select \/ TimerFire \/ DoAgain

SpecAgain == InitAgain /\ [][NextAgain]_vars

(***************************************************************************)
(* SpecNext: a policy made by one of the constructors and asked, outside   *)
(* of retry, for attempt 1, 2, 3, ... through the exported Next.           *)
(***************************************************************************)
InitNext ==
    /\ r \in { BaseRequest(b) : b \in Backoffs }
    /\ pc = "policy"
    /\ n = 0
    /\ err = NilErr
    /\ wait = 0
    /\ timer = "none"
    /\ ctxErr = "none"
    /\ doCallCount = 0
    /\ obs = Obs0
    /\ e = NilErr
    /\ out = <<>>

\* wait, retry := backoffPolicy.Next(n) for the next n
CallNext ==
    /\ pc = "policy"
    /\ n < MaxAttempts
    /\ n' = n + 1
    /\ \E nr \in BackoffNext(r.backoff, n + 1) :
         /\ wait' = nr.wait
         /\ obs' = [obs EXCEPT !.nextCalls = @ + 1,
                               !.lastRetry = nr.retry,
                               !.stoppedAt = IF @ = 0 /\ ~nr.retry THEN n + 1 ELSE @]
    /\ UNCHANGED <<r, pc, err, timer, ctxErr, doCallCount, e, out>>

NextNext == CallNext

SpecNext == InitNext /\ [][NextNext]_vars

(***************************************************************************)
(* SpecDecode: one call of Do on requests with or without a decoder of the *)
(* response and of the error body, whose retry list matches no status,     *)
(* the status 404 or every status, the success status included.            *)
(***************************************************************************)
DecodeFns == {"nil", "ok", "fail", "failRetry"}
RetryLists == {<<>>, <<StatusNotFound>>, <<StatusInRange(200, 599)>>}

InitDecode ==
    /\ r \in { [BaseRequest(b) EXCEPT !.decodeFn = d, !.onErrorFn = oe, !.retryStatusFns = rl] :
                 b \in {NewStopBackoff, NewConstantBackoff(1, 2)},
                 d \in DecodeFns, oe \in DecodeFns, rl \in RetryLists }
    /\ pc = "build"
    /\ n = 0
    /\ err = NilErr
    /\ wait = 0
    /\ timer = "none"
    /\ ctxErr = "none"
    /\ doCallCount = 0
    /\ obs = Obs0
    /\ e = NilErr
    /\ out = <<>>

NextDecode == Do \/ Attempt \/ Select \/ TimerFire

SpecDecode == InitDecode /\ [][NextDecode]_vars

(***************************************************************************)
(* SpecFlags: one call of Do on requests that classify the same statuses   *)
(* as retryable and differ in their not-found and exists lists.            *)
(***************************************************************************)
FlagLists == {<<>>, <<StatusNotFound>>, <<StatusInRange(400, 599)>>}
FlagBackoffs == FewBackoffs \cup {NewZeroBackoff(2), NewExponentialBackoff(Millisecond, 8 * Millisecond, 0)}

InitFlags ==
    /\ r \in { [BaseRequest(b) EXCEPT !.notFoundFns = nf, !.existsFns = ex] :
                 b \in FlagBackoffs, nf \in FlagLists, ex \in FlagLists }
    /\ pc = "build"
    /\ n = 0
    /\ err = NilErr
    /\ wait = 0
    /\ timer = "none"
    /\ ctxErr = "none"
    /\ doCallCount = 0
    /\ obs = Obs0
    /\ e = NilErr
    /\ out = <<>>

NextFlags == Do \/ Attempt \/ Select \/ TimerFire \/ Cancel

SpecFlags == InitFlags /\ [][NextFlags]_vars

(***************************************************************************)
(* SpecJitter: a jittered SimpleBackoff over a schedule of two entries,    *)
(* asked through Next, and jitter called on the entries of the schedule.   *)
(***************************************************************************)
JitterTicks == { <<m1, m2>> : m1 \in -1..MaxMillis, m2 \in -1..MaxMillis }

InitJitter ==
    /\ r \in { BaseRequest(NewSimpleBackoff(0, TRUE, ticks)) : ticks \in JitterTicks }
    /\ pc = "policy"
    /\ n = 0
    /\ err = NilErr
    /\ wait = 0
    /\ timer = "none"
    /\ ctxErr = "none"
    /\ doCallCount = 0
    /\ obs = Obs0
    /\ e = NilErr
    /\ out = <<>>

\* ms = jitter(ms) for an entry ms of b.ticks
CallJitter ==
    /\ pc = "policy"
    /\ \E i \in 1..Len(r.backoff.ticks) : \E ms \in jitter(r.backoff.ticks[i]) :
         obs' = [obs EXCEPT !.jitter = <<r.backoff.ticks[i], ms>>]
    /\ UNCHANGED <<r, pc, n, err, wait, timer, ctxErr, doCallCount, e, out>>

NextJitter == CallJitter \/ CallNext

SpecJitter == InitJitter /\ [][NextJitter]_vars

(***************************************************************************)
(* SpecCallers: two goroutines call Next on one instance of a ZeroBackoff, *)
(* a ConstantBackoff or a SimpleBackoff, r.backoff, each with attempt      *)
(* numbers of its own.  out holds the two callers: where each is in Next   *)
(* ("idle", "lock": blocked in b.Lock(), "locked": holding the lock,       *)
(* "returned"), the retry it passed and what Next returned to it; met      *)
(* tells that the other caller was waiting for the lock when it got it.    *)
(***************************************************************************)
Caller(at, retry, result, met) == [pc |-> at, retry |-> retry, result |-> result, met |-> met]

InitCallers ==
    /\ r \in { BaseRequest(b) : b \in { x \in Backoffs : x.kind \in {"Zero", "Constant", "Simple"} } }
    /\ out = <<Caller("idle", 0, NextResult(0, FALSE), FALSE), Caller("idle", 0, NextResult(0, FALSE), FALSE)>>
    /\ obs = [Obs0 EXCEPT !.decided = [k \in 0..MaxCalls |-> {}]]
    /\ pc = "policy"
    /\ n = 0
    /\ err = NilErr
    /\ wait = 0
    /\ timer = "none"
    /\ ctxErr = "none"
    /\ doCallCount = 0
    /\ e = NilErr

\* a caller calls Next(k) of a ZeroBackoff or a ConstantBackoff: the method
\* reads maxCalls and interval, which nothing writes
CallerNext ==
    /\ r.backoff.kind # "Simple"
    /\ obs.nextCalls < MaxCalls
    /\ \E i \in 1..Len(out) : \E k \in 0..MaxCalls : \E nr \in BackoffNext(r.backoff, k) :
         /\ out[i].pc \in {"idle", "returned"}
         /\ out' = [out EXCEPT ![i] = Caller("returned", k, nr, FALSE)]
         /\ obs' = [obs EXCEPT !.nextCalls = @ + 1, !.decided[k] = @ \cup {nr}]
    /\ UNCHANGED <<r, pc, n, err, wait, timer, ctxErr, doCallCount, e>>

\* a caller calls Next(k) of a SimpleBackoff: the maxCalls test, before b.Lock()
CallerEnter ==
    /\ r.backoff.kind = "Simple"
    /\ obs.nextCalls < MaxCalls
    /\ \E i \in 1..Len(out) : \E k \in 0..MaxCalls :
         /\ out[i].pc \in {"idle", "returned"}
         /\ IF r.backoff.maxCalls > 0 /\ k = r.backoff.maxCalls
            THEN /\ out' = [out EXCEPT ![i] = Caller("returned", k, NextResult(0, FALSE), FALSE)]
                 /\ obs' = [obs EXCEPT !.nextCalls = @ + 1, !.decided[k] = @ \cup {NextResult(0, FALSE)}]
            ELSE /\ out' = [out EXCEPT ![i] = Caller("lock", k, NextResult(0, FALSE), FALSE)]
                 /\ obs' = [obs EXCEPT !.nextCalls = @ + 1]
    /\ UNCHANGED <<r, pc, n, err, wait, timer, ctxErr, doCallCount, e>>

\* b.Lock() returns to a caller
CallerLock ==
    /\ r.backoff.mutex = 0
    /\ \E i \in 1..Len(out) :
         /\ out[i].pc = "lock"
         /\ r' = [r EXCEPT !.backoff.mutex = i]
         /\ out' = [out EXCEPT ![i].pc = "locked",
                               ![i].met = \E j \in 1..Len(out) : j # i /\ out[j].pc = "lock"]
    /\ UNCHANGED <<pc, n, err, wait, timer, ctxErr, doCallCount, obs, e>>

\* the caller holding the lock reads the schedule and returns; the deferred
\* b.Unlock() runs
CallerLocked ==
    /\ \E i \in 1..Len(out) : \E nr \in underLock(r.backoff, out[i].retry) :
         /\ out[i].pc = "locked"
         /\ out' = [out EXCEPT ![i].pc = "returned", ![i].result = nr]
         /\ obs' = [obs EXCEPT !.decided[out[i].retry] = @ \cup {nr}]
    /\ r' = [r EXCEPT !.backoff.mutex = 0]
    /\ UNCHANGED <<pc, n, err, wait, timer, ctxErr, doCallCount, e>>

NextCallers == CallerNext \/ CallerEnter \/ CallerLock \/ CallerLocked

SpecCallers == InitCallers /\ [][NextCallers]_vars

(***************************************************************************)
(* SpecShare: two Requests made by Req from one Client, each adding        *)
(* headers with Header and ContentType.  Here a []kvPair is a Go slice:    *)
(* the backing array it points into, a length and a capacity; Req copies   *)
(* the slice of the Client, not its elements.  r is the pair of Requests,  *)
(* out the backing arrays allocated so far, obs.client the Client.         *)
(***************************************************************************)
Slice(array, len, cap) == [array |-> array, len |-> len, cap |-> cap]

\* the elements of a slice
Elems(heap, s) == IF s.len = 0 THEN <<>> ELSE SubSeq(heap[s.array], 1, s.len)

\* the capacity append gives a full slice of capacity cap that grows by one
\* element (doubling, as the runtime does for small slices)
Grown(cap) == IF cap = 0 THEN 1 ELSE 2 * cap

\* append(s, kv): the slice returned and the backing arrays after the call.
\* With room left the element is written into the array of s; a full slice is
\* copied into a new array.
append(heap, s, kv) ==
    IF s.len < s.cap
    THEN [heap |-> [heap EXCEPT ![s.array][s.len + 1] = kv],
          slice |-> Slice(s.array, s.len + 1, s.cap)]
    ELSE [heap |-> Append(heap, Elems(heap, s) \o <<kv>>
                                \o [i \in 1..(Grown(s.cap) - s.len - 1) |-> kvPair("", "")]),
          slice |-> Slice(Len(heap) + 1, s.len + 1, Grown(s.cap))]

\* c.headers after the header options of New, and the arrays allocated for it
RECURSIVE ApplyHeaderOpts(_, _)
ApplyHeaderOpts(opts, m) ==
    IF Len(opts) = 0 THEN m
    ELSE ApplyHeaderOpts(Tail(opts), append(m.heap, m.slice, kvPair(opts[1].key, opts[1].value)))

InitShare ==
    /\ \E opts \in SeqsUpTo(ClientHeaderOpts, MaxHeaders) :
       \E m \in {ApplyHeaderOpts(opts, [heap |-> <<>>, slice |-> Slice(0, 0, 0)])} :
       \E c \in {[New("fake", <<>>) EXCEPT !.headers = m.slice]} :
         /\ out = m.heap
         /\ obs = [Obs0 EXCEPT !.client = c, !.nClient = m.slice.len]
         /\ r = <<Req(c, "GET", URL("/foo", <<>>)), Req(c, "DELETE", URL("/bar", <<>>))>>
    /\ pc = "build"
    /\ n = 0
    /\ err = NilErr
    /\ wait = 0
    /\ timer = "none"
    /\ ctxErr = "none"
    /\ doCallCount = 0
    /\ e = NilErr

\* r[i].Header(key, value)
ShareHeader ==
    /\ \E i \in 1..Len(r) : \E kv \in {kvPair("X-Key", "a"), kvPair("X-Key", "b")} :
       \E m \in {append(out, r[i].headers, kv)} :
         /\ r[i].headers.len < obs.nClient + MaxAdded
         /\ out' = m.heap
         /\ r' = [r EXCEPT ![i].headers = m.slice]
    /\ UNCHANGED <<pc, n, err, wait, timer, ctxErr, doCallCount, obs, e>>

\* r[i].ContentType(cType)
ShareContentType ==
    /\ \E i \in 1..Len(r) : \E cType \in {"application/json"} :
       \E m \in {append(out, r[i].headers, kvPair("Content-Type", cType))} :
         /\ r[i].headers.len < obs.nClient + MaxAdded
         /\ out' = m.heap
         /\ r' = [r EXCEPT ![i].headers = m.slice]
    /\ UNCHANGED <<pc, n, err, wait, timer, ctxErr, doCallCount, obs, e>>

NextShare == ShareHeader \/ ShareContentType

SpecShare == InitShare /\ [][NextShare]_vars

(***************************************************************************)
(* Properties of Spec.                                                     *)
(***************************************************************************)
\* the call returned, and not because the context was done
GaveUp == pc = "done" /\ err.type # "ctx"

\* C1: with a ConstantBackoff of max = N > 0 and every attempt a failure whose
\* Retry() is true, Do dispatches exactly N times and returns a non-nil
\* failure whose Retry() is true; it never dispatches more than N times.
C1_ConstantBackoffExactlyN ==
    (r.backoff.kind = "Constant" /\ r.backoff.maxCalls > 0 /\ obs.allRetry)
    => /\ doCallCount <= r.backoff.maxCalls
       /\ GaveUp => /\ doCallCount = r.backoff.maxCalls
                    /\ err.type = "HTTPErr"
                    /\ err.retry

C1_Witness ==
    /\ r.backoff.kind = "Constant" /\ r.backoff.maxCalls = 3 /\ obs.allRetry
    /\ GaveUp /\ doCallCount = 3 /\ err.type = "HTTPErr" /\ err.retry

MaxKinds == {"Zero", "Constant", "Exponential", "Simple"}

C3_NonRetryableFirstAttempt ==
    (obs.calls >= 1 /\ obs.first.type = "HTTPErr" /\ obs.first.statusCode # 0 /\ ~obs.first.retry)
    => /\ pc = "done"
       /\ obs.calls = 1
       /\ doCallCount = 1
       /\ err = obs.first

C3_Witness ==
    /\ r.backoff.kind = "Constant" /\ r.backoff.maxCalls = 3
    /\ obs.first.type = "HTTPErr" /\ obs.first.statusCode = StatusUnprocessableEntityCode
    /\ ~obs.first.retry /\ pc = "done" /\ doCallCount = 1

\* C4: a failure of the first attempt that is not flagged retryable is returned
\* at once and never retried; with a body and no encode function that is
\* ErrInvalidEncodeFn after one attempt and no dispatch, under every policy.
C4_UnflaggedFailureNeverRetried ==
    (obs.calls >= 1 /\ obs.first.type # "nil" /\ ~(IsRetrier(obs.first) /\ obs.first.retry))
    => /\ pc \in {"done", "panic"}
       /\ obs.calls = 1
       /\ err = obs.first
       /\ (r.body # "nil" /\ r.encodeFn = "nil") => (err = ErrInvalidEncodeFn /\ doCallCount = 0)

\* C5: in the step in which an attempt returns nil the loop is done: Next is
\* not called, no wait begins; and after the call is done no attempt, Next
\* call, wait or dispatch happens.
C5_SuccessReturnsImmediately ==
    [][ /\ (obs'.calls > obs.calls /\ err'.type = "nil")
           => (pc' = "done" /\ obs'.nextCalls = obs.nextCalls
               /\ obs'.selects = obs.selects /\ timer' = timer /\ n' = n)
        /\ pc = "done" => (pc' = "done" /\ err' = err /\ obs' = obs /\ doCallCount' = doCallCount)
      ]_vars

C5_Witness ==
    pc = "done" /\ err.type = "nil" /\ obs.calls = 3 /\ obs.nextCalls = 2 /\ obs.selects = 2

\* C6: when the context is done while the loop is blocked in the wait between
\* two attempts, Do returns ctx.Err(), not the failure of the attempt before,
\* and neither attempts nor dispatches again.
C6_CancelDuringWait ==
    obs.cancelBlocked
    => /\ pc = "done"
       /\ err = CtxErr(ctxErr)
       /\ obs.calls = obs.callsAtCancel
       /\ doCallCount = obs.doCallsAtCancel

C6_Witness ==
    /\ obs.cancelBlocked /\ wait > 0 /\ pc = "done"
    /\ err = CtxErr("context deadline exceeded") /\ doCallCount = 2

\* C7: when the policy returns (0, continue) and the context is already done
\* as the wait begins, the loop returns the context's error and starts no
\* other attempt, however the select resolves.
C7_ZeroWaitHonorsCancel ==
    (obs.selects > 0 /\ obs.cancelAtWait /\ wait = 0)
    => \/ pc = "select"
       \/ pc = "done" /\ err = CtxErr(ctxErr)

\* whether the error responseErrFn returned for the last transport failure,
\* or that failure itself without a responseErrFn, has a Retry method returning true
ExposesRetry(fn, x) ==
    CASE fn = "retry" -> TRUE
      [] fn = "same" -> x.retrier /\ x.retry
      [] fn = "nil" -> x.retrier /\ x.retry

\* an attempt whose dispatch fails calls the configured responseErrFn once, no
\* other attempt calls it, and the failure has Retry() true iff the error
\* after the transform exposes it
TransformStep ==
    obs'.calls > obs.calls
    => IF ~obs'.doErr.nil
       THEN /\ doCallCount' = doCallCount + 1
            /\ obs'.transforms = obs.transforms + (IF r.responseErrFn # "nil" THEN 1 ELSE 0)
            /\ err'.type = "HTTPErr"
            /\ err'.retry <=> ExposesRetry(r.responseErrFn, obs'.doErr)
       ELSE obs'.transforms = obs.transforms

\* the dispatches of a call whose every dispatch fails
TransformCounts ==
    /\ (r.responseErrFn = "retry" /\ r.backoff.kind = "Constant" /\ r.backoff.maxCalls > 0
        /\ obs.transforms = obs.calls)
       => /\ doCallCount <= r.backoff.maxCalls
          /\ (GaveUp => doCallCount = r.backoff.maxCalls)
    /\ (r.responseErrFn = "same" /\ obs.first.type = "HTTPErr"
        /\ obs.first.errMsg = "unexpected error")
       => (pc = "done" /\ doCallCount = 1 /\ obs.transforms = 1 /\ err = obs.first)

\* C14: an attempt whose dispatch fails calls the configured responseErrFn
\* exactly once and no other attempt calls it, and its failure has Retry() true
\* iff the error after the transform exposes Retry() true; with a transform
\* that always yields a retryable error, a ConstantBackoff of max N and every
\* dispatch failing, exactly N dispatches occur; with a transform that returns
\* errors.New's error unchanged, exactly 1 dispatch and 1 transform call occur.
C14_ResponseErrTransform == [][TransformStep]_vars /\ []TransformCounts

C14_Witness ==
    /\ r.responseErrFn = "retry" /\ r.backoff.kind = "Constant" /\ r.backoff.maxCalls = 2
    /\ GaveUp /\ doCallCount = 2 /\ obs.transforms = 2 /\ obs.calls = 2
    /\ obs.doErr = InnerErr("unexpected error", FALSE, FALSE)
    /\ err.type = "HTTPErr" /\ err.retry /\ err.errMsg = "unexpected error"

\* C25: under a ZeroBackoff every wait is zero; with max = 0 every call of
\* Next returns continue, so the call of Do ends only with success, with a
\* failure whose Retry() is false or with the context's error; with
\* max = N > 0 the calls Next(1) .. Next(N-1) return continue and Next(N)
\* returns stop.
C25_ZeroBackoff ==
    r.backoff.kind = "Zero"
    => /\ wait = 0
       /\ obs.nextCalls = n
       /\ r.backoff.maxCalls = 0
          => /\ obs.selects = obs.nextCalls
             /\ pc = "done" => \/ err.type \in {"nil", "ctx"}
                               \/ IsRetrier(err) /\ ~err.retry
       /\ r.backoff.maxCalls > 0
          => /\ n <= r.backoff.maxCalls
             /\ n < r.backoff.maxCalls => obs.selects = obs.nextCalls
             /\ n = r.backoff.maxCalls => (obs.selects = obs.nextCalls - 1 /\ pc = "done")

C25_Witness ==
    /\ r.backoff.kind = "Zero" /\ r.backoff.maxCalls = 0 /\ obs.allRetry
    /\ obs.calls = MaxAttempts /\ obs.nextCalls = MaxAttempts /\ obs.selects = MaxAttempts
    /\ wait = 0 /\ pc = "select"

\* the step in which backoffPolicy.Next returns stop: the call returns what
\* the attempt of this step returned, a failure
StopStep ==
    (obs'.nextCalls = obs.nextCalls + 1 /\ obs'.selects = obs.selects)
    => /\ pc' = "done"
       /\ obs'.calls = obs.calls + 1
       /\ err' = obs'.last
       /\ err'.type \notin {"nil", "ctx"}

\* the call returned because the policy returned stop
Stopped == pc = "done" /\ obs.nextCalls = obs.selects + 1

\* C26: when the policy returns stop after a failure that is retried, the call
\* returns the failure of the last attempt, not the failure of an earlier
\* attempt and not the context's error, also when the context is already done.
C26_StopReturnsLastFailure == [][StopStep]_vars /\ [](Stopped => err = obs.last)

C26_Witness ==
    /\ Stopped /\ ctxErr = "context canceled"
    /\ r.backoff.kind = "Constant" /\ r.backoff.maxCalls = 3 /\ obs.calls = 3
    /\ obs.first.statusCode = StatusNotFoundCode
    /\ err.type = "HTTPErr" /\ err.statusCode = StatusInternalServerErrorCode /\ err.retry

\* C36: Do never ends without an attempt made, and when Do returns the error
\* of the context, the context done before Do was called included, an attempt
\* and a dispatch to the Doer have been made before.
C36_AttemptBeforeCancel ==
    /\ pc \in {"done", "panic"} => obs.calls >= 1
    /\ (pc = "done" /\ err.type = "ctx") => obs.calls >= 1 /\ doCallCount >= 1

(***************************************************************************)
(* Properties of SpecBuild.                                                *)
(***************************************************************************)
\* at least one fn of the list returns true for the status
AnyFn(status, fns) == \E i \in 1..Len(fns) : CallStatusFn(fns[i], status)

\* C8: for a response whose status matches no success StatusFn, the failure Do
\* returns has Retry() true iff the status matches the retry list, NotFound()
\* true iff it matches the not-found list and Exists() true iff it matches the
\* exists list, each flag by its own list only.
C8_FlagsFollowTheirLists ==
    (pc = "done" /\ obs.status # 0 /\ ~AnyFn(obs.status, r.successFns))
    => /\ err.type = "HTTPErr"
       /\ err.statusCode = obs.status
       /\ err.retry <=> AnyFn(obs.status, r.retryStatusFns)
       /\ err.notFound <=> AnyFn(obs.status, r.notFoundFns)
       /\ err.exists <=> AnyFn(obs.status, r.existsFns)

C8_Witness ==
    /\ pc = "done" /\ obs.status = StatusUnprocessableEntityCode
    /\ Len(r.retryStatusFns) = 1 /\ Len(r.notFoundFns) = 1 /\ Len(r.existsFns) = 1
    /\ err.retry /\ ~err.notFound /\ err.exists

ListNames == {"successFns", "retryStatusFns", "notFoundFns", "existsFns"}

\* C9: statusMatches(s, L) is true iff some StatusFn of L returns true for s,
\* and false for the empty list; each list of a Request holds every StatusFn
\* the builder was handed for it, so it matches iff one of them does.
C9_StatusMatchesIsAny ==
    \A l \in ListNames : \A s \in Statuses :
        /\ statusMatches(s, r[l]) <=> (\E fn \in obs.fns[l] : CallStatusFn(fn, s))
        /\ statusMatches(s, r[l]) <=> AnyFn(s, r[l])
        /\ Len(r[l]) = 0 => ~statusMatches(s, r[l])

C9_Witness ==
    /\ Len(r.retryStatusFns) = 2
    /\ ~CallStatusFn(r.retryStatusFns[1], StatusInternalServerErrorCode)
    /\ CallStatusFn(r.retryStatusFns[2], StatusInternalServerErrorCode)
    /\ statusMatches(StatusInternalServerErrorCode, r.retryStatusFns)
    /\ pc = "done" /\ err.retry

\* C15: a Request of a Client made without a backoff option has the
\* StopBackoff policy: Do makes exactly one attempt and returns, also when the
\* failure is flagged retryable, and then returns that failure with Retry()
\* true.
C15_DefaultNeverRetries ==
    /\ obs.calls <= 1 /\ doCallCount <= 1 /\ obs.selects = 0
    /\ obs.calls = 1 => (pc = "done" /\ err = obs.first)
    /\ (pc = "done" /\ obs.status # 0 /\ ~AnyFn(obs.status, r.successFns)
        /\ AnyFn(obs.status, r.retryStatusFns))
       => (err.type = "HTTPErr" /\ err.retry)

C15_Witness ==
    /\ pc = "done" /\ obs.calls = 1 /\ doCallCount = 1 /\ obs.nextCalls = 1
    /\ obs.status = StatusInternalServerErrorCode
    /\ err.type = "HTTPErr" /\ err.retry /\ err.statusCode = StatusInternalServerErrorCode

(***************************************************************************)
(* Properties of SpecErr.                                                  *)
(***************************************************************************)
\* the URL the failure was built from carries the secret under a secret key
CarriesSecret ==
    \E i \in 1..Len(obs.rawQuery) :
        obs.rawQuery[i][1] \in SecretKeys /\ obs.rawQuery[i][2] = Secret

\* C10: when the originating URL carries the secret under access_token or
\* secret, the text Error() or BackoffMessage() returned does not contain the
\* secret and contains REDACTED.
C10_SecretNeverInDiagnostics ==
    (pc = "said" /\ CarriesSecret)
    => /\ ~Contains(out, Secret)
       /\ Contains(out, "REDACTED")

\* the request the failure was built from has a JSON content type and a
\* readable body
JSONRequestBody ==
    /\ ~obs.sent.nil /\ Get(obs.sent.Header, "Content-Type") \in JSONTypes
    /\ ~obs.sent.Body.nil /\ ~obs.sent.Body.failRead

\* C17: when the request of the response has a JSON content type, the failure
\* records the text of the request body as its request body, which Error()
\* renders as request_body, and its response body is the body of the response
\* only, never the request body.
C17_RequestBodyRecorded ==
    (e.type = "HTTPErr" /\ JSONRequestBody)
    => /\ e.reqBody = obs.sent.Body.data
       /\ e.respBody = (IF obs.body.failRead THEN <<>> ELSE obs.body.data)
       /\ (pc = "said" /\ Contains(out, "err=")) => Contains(out, "request_body=")

\* C31: after any number of calls of Error() and BackoffMessage(), in any
\* order, Retry(), NotFound() and Exists() of the failure are what they were
\* right after construction, and every call of Error() returns the string
\* its first call returned.
C31_TextLeavesFailure ==
    e.type = "HTTPErr"
    => /\ e.retry = obs.made.retry
       /\ e.notFound = obs.made.notFound
       /\ e.exists = obs.made.exists
       /\ (pc = "said" /\ obs.saidBy = "Error") => out = obs.errorText[1]

\* the labels of the segments of Error(), in the order of the text
SegmentLabels == <<"status=", "method=", "url=", "err=", "response_body=", "request_body=">>

\* the positions of a label in the text returned last
LabelAt(label) == { i \in 1..Len(out) : out[i] = label }

\* the text returned last has the label
Says(label) == LabelAt(label) # {}

\* the failure was built without a response
NoResponse == obs.sent.nil /\ obs.status = 0 /\ obs.body.nil

\* C32: the text Error() returns has each segment at most once, in the order
\* status, method, URL, error text, response body, request body; a segment is
\* there exactly when its value is not empty (the value of the URL segment
\* being the URL as it is rendered); and a failure built without a response
\* has status 0 and no segment but the error text.
C32_SegmentsInOrder ==
    (pc = "said" /\ obs.saidBy = "Error")
    => /\ \A k \in 1..Len(SegmentLabels) : Cardinality(LabelAt(SegmentLabels[k])) <= 1
       /\ \A j \in 1..Len(SegmentLabels) : \A k \in 1..Len(SegmentLabels) :
             j < k => \A a \in LabelAt(SegmentLabels[j]) : \A b \in LabelAt(SegmentLabels[k]) : a < b
       /\ Says("status=") <=> e.statusCode # 0
       /\ Says("method=") <=> e.method # ""
       /\ Says("url=") <=> URLString(Redacted(obs.made.u)) # <<>>
       /\ Says("err=") <=> e.errMsg # ""
       /\ Says("response_body=") <=> e.respBody # <<>>
       /\ Says("request_body=") <=> e.reqBody # <<>>
       /\ NoResponse => e.statusCode = 0 /\ \A i \in 1..Len(out) :
                           out[i] \in {"status=", "method=", "url=", "response_body=", "request_body="} => FALSE

(***************************************************************************)
(* Properties of SpecDo.                                                   *)
(***************************************************************************)
\* the last attempt got a response whose status matches no success StatusFn
Mismatch == obs.calls >= 1 /\ obs.status # 0 /\ ~statusMatches(obs.status, r.successFns)

\* C11: on a status mismatch with an OnError decoder, the response body the
\* failure records is the full original body of the response, however many
\* bytes the decoder consumed.
C11_OnErrorKeepsFullBody ==
    (Mismatch /\ r.onErrorFn # "nil" /\ ~obs.body.failRead /\ err.type = "HTTPErr")
    => err.respBody = obs.body.data

\* C12: when the Doer returned a response, its original body is read to the
\* end and closed when the attempt returns, on every exit path.
C12_BodyDrainedAndClosed ==
    (obs.calls >= 1 /\ obs.status # 0 /\ ~obs.body.failRead)
    => /\ obs.body.closed
       /\ obs.body.pos = Len(obs.body.data)

\* C18: when draining or closing the body of the response fails during an
\* attempt, Do returns a failure, and that failure carries the error of the
\* drain or of the close.
C18_DrainErrorsSurfaced ==
    (pc = "done" /\ obs.status # 0 /\ obs.discarded # <<>>)
    => /\ err.type # "nil"
       /\ \E i \in 1..Len(obs.discarded) : err.errMsg = obs.discarded[i]

\* C37: an attempt that got a response from the Doer returns, whatever the
\* request and the response are, a JSON content type on a request without a
\* body included; and on a status mismatch or a failure of the decoder what
\* it returns is a classified failure, an HTTPErr.
C37_ClassifyingNeverCrashes ==
    (obs.calls >= 1 /\ obs.status # 0)
    => /\ pc = "done"
       /\ (Mismatch \/ r.decodeFn = "fail") => err.type = "HTTPErr"

(***************************************************************************)
(* Properties of SpecHdr.                                                  *)
(***************************************************************************)
\* where r.headers sets the canonical key K, where r.params sets the key k
HeaderSetAt(K) == { i \in 1..Len(r.headers) : CanonicalMIMEHeaderKey(r.headers[i].key) = K }
ParamSetAt(k) == { i \in 1..Len(r.params) : r.params[i].key = k }
Last(S) == CHOOSE i \in S : \A j \in S : j <= i

\* C13: the request handed to the Doer carries, for every header key and
\* every query key that was set, exactly the value that was set last; a key
\* set on the Client and on the Request carries the value of the Request.
C13_LastSetWins ==
    ~obs.sent.nil
    => /\ \A K \in HeaderKeys :
            HeaderSetAt(K) # {}
            => /\ obs.sent.Header[K] = <<r.headers[Last(HeaderSetAt(K))].value>>
               /\ (\E i \in HeaderSetAt(K) : i > obs.nClient) => Last(HeaderSetAt(K)) > obs.nClient
       /\ \A k \in QueryKeys :
            ParamSetAt(k) # {}
            => Query(obs.sent.URL)[k] = <<r.params[Last(ParamSetAt(k))].value>>

C13_Witness ==
    /\ ~obs.sent.nil /\ pc = "done"
    /\ obs.nClient = 1 /\ HeaderSetAt("X-Key") = {1, 2, 3}
    /\ r.headers[1].value = "a" /\ r.headers[2].value = "c" /\ r.headers[3].value = "b"
    /\ obs.sent.Header["X-Key"] = <<"b">>
    /\ r.Addr.rawQuery = << <<"q", "old">> >>
    /\ r.params = <<kvPair("q", "b"), kvPair("q", "a")>>
    /\ obs.sent.URL.rawQuery = << <<"q", "a">> >>

(***************************************************************************)
(* Properties of SpecAgain.                                                *)
(***************************************************************************)
\* the attempt number of an attempt: 0 in the first attempt of a call of Do,
\* one more than in the attempt before in every other
AttemptNumStep ==
    obs'.calls # obs.calls /\ obs'.calls >= 1
    => obs'.attempt = <<IF obs.calls = 0 THEN 0 ELSE obs.attempt[1] + 1, TRUE>>

\* C16: in the k-th invocation of the attempt function within one call of Do,
\* Attempt(ctx) returns (k-1, true): the number grows by exactly 1 with every
\* retry and begins at 0 again in every new call of Do.
C16_AttemptNumber ==
    /\ [][AttemptNumStep]_vars
    /\ [](obs.calls >= 1 => obs.attempt = <<obs.calls - 1, TRUE>>)

C16_Witness ==
    /\ obs.again = 1 /\ doCallCount = 4 /\ obs.calls = 1 /\ obs.attempt = <<0, TRUE>>

\* C28: every call of Do runs its own policy and its own attempt counter:
\* with max = N > 0 and every response retryable, each call of Do, the first
\* and a later one on the same Request or on another Request of the Client,
\* dispatches at most N times and exactly N times before it gives up, and the
\* counter handed to Next never exceeds the attempts of the running call.
C28_FreshPolicyPerCall ==
    /\ n <= obs.calls
    /\ (r.backoff.kind \in {"Zero", "Constant"} /\ r.backoff.maxCalls > 0 /\ obs.allRetry)
       => /\ doCallCount - obs.doCallsAtDo <= r.backoff.maxCalls
          /\ GaveUp => /\ doCallCount - obs.doCallsAtDo = r.backoff.maxCalls
                       /\ obs.calls = r.backoff.maxCalls
                       /\ n = r.backoff.maxCalls

C28_Witness ==
    /\ obs.again = 1 /\ r.Method = "GET" /\ GaveUp /\ obs.allRetry
    /\ r.backoff.kind = "Constant" /\ r.backoff.maxCalls = 3
    /\ obs.doCallsAtDo = 3 /\ doCallCount = 6 /\ n = 3

(***************************************************************************)
(* Properties of SpecNext.                                                 *)
(***************************************************************************)
\* C19: once Next(k) has returned stop, Next(j) returns stop for every j > k,
\* for every policy.
C19_StopIsTerminal ==
    obs.stoppedAt # 0 => ~obs.lastRetry

\* C20: a SimpleBackoff without jitter and without max calls returns, for
\* 1 <= k <= len(ticks), the k-th of its ticks in milliseconds and continue,
\* and returns stop only for k > len(ticks).
C20_SimpleReturnsKthTick ==
    (n >= 1 /\ r.backoff.kind = "Simple" /\ ~r.backoff.jitter /\ r.backoff.maxCalls = 0)
    => IF n <= Len(r.backoff.ticks)
       THEN obs.lastRetry /\ wait = r.backoff.ticks[n] * Millisecond
       ELSE ~obs.lastRetry

\* C21: a SimpleBackoff without jitter and without max calls goes through its
\* list, and once every value of the list has been returned (k > len(ticks)),
\* Next(k) keeps returning the last element of the list and continue.
C21_SimpleRepeatsLast ==
    (r.backoff.kind = "Simple" /\ ~r.backoff.jitter /\ r.backoff.maxCalls = 0
     /\ Len(r.backoff.ticks) > 0 /\ n > Len(r.backoff.ticks))
    => /\ obs.lastRetry
       /\ wait = r.backoff.ticks[Len(r.backoff.ticks)] * Millisecond

\* C24: ExponentialBackoff.Next(k), with initial and ceiling in whole
\* milliseconds: it returns stop when k equals a configured max and when
\* initial * 2^k reaches the ceiling, and it returns stop for no other reason
\* than the max or a value r * initial * 2^k, r in [1,2], that can reach the
\* ceiling; when it returns continue the wait is a whole number of
\* milliseconds, strictly less than the ceiling, at least initial * 2^k and at
\* most 2 * initial * 2^k milliseconds.
C24_ExponentialNext ==
    (n >= 1 /\ r.backoff.kind = "Exponential")
    => /\ (r.backoff.maxCalls > 0 /\ n = r.backoff.maxCalls) => ~obs.lastRetry
       /\ r.backoff.t * 2^n >= r.backoff.m => ~obs.lastRetry
       /\ ~obs.lastRetry
          => /\ wait = 0
             /\ \/ r.backoff.maxCalls > 0 /\ n = r.backoff.maxCalls
                \/ 2 * r.backoff.t * 2^n >= r.backoff.m
       /\ obs.lastRetry
          => /\ wait % Millisecond = 0
             /\ wait < r.backoff.m * Millisecond
             /\ wait >= r.backoff.t * 2^n * Millisecond
             /\ wait <= 2 * r.backoff.t * 2^n * Millisecond

C24_Witness ==
    /\ r.backoff.kind = "Exponential" /\ r.backoff.maxCalls = 0
    /\ r.backoff.t = 1 /\ r.backoff.m = 8
    /\ n = 2 /\ obs.lastRetry /\ wait = 5 * Millisecond

\* C35: an ExponentialBackoff without max calls gives up: for every initial
\* timeout and every ceiling, an initial timeout below one millisecond
\* included, Next has returned stop for one of the attempt numbers 1, 2, ...
\* by the time it has been asked for all of them up to MaxAttempts (the
\* ceilings of the run are reached from one millisecond in three doublings).
C35_ExponentialGivesUp ==
    (r.backoff.kind = "Exponential" /\ r.backoff.maxCalls = 0 /\ n = MaxAttempts)
    => obs.stoppedAt # 0

(***************************************************************************)
(* Properties of SpecDecode.                                               *)
(***************************************************************************)
\* the last attempt got a response whose status matches a success StatusFn
Matched == obs.calls >= 1 /\ obs.status # 0 /\ statusMatches(obs.status, r.successFns)

\* C29: on a status that matches a success StatusFn, without a decode
\* function, or with one that succeeds, the attempt returns nil and Do
\* returns success; a failure of the decode function becomes an HTTPErr with
\* the decode error as its message, whose Retry() is true iff the decode
\* error has a Retry method returning true, whatever the retry list says of
\* the status, and whose NotFound() and Exists() are false.
C29_DecodeFailure ==
    Matched
    => IF r.decodeFn \in {"nil", "ok"}
       THEN obs.last = NilErr /\ pc = "done" /\ err = NilErr
       ELSE /\ obs.last.type = "HTTPErr"
            /\ obs.last.errMsg = "decode failed"
            /\ obs.last.statusCode = obs.status
            /\ obs.last.retry <=> (r.decodeFn = "failRetry")
            /\ ~obs.last.notFound /\ ~obs.last.exists
            /\ r.decodeFn = "fail" => (pc = "done" /\ err = obs.last)

C29_Witness ==
    /\ Matched /\ r.decodeFn = "failRetry" /\ r.retryStatusFns = <<>>
    /\ r.backoff.kind = "Constant" /\ Stopped /\ obs.calls = 2 /\ doCallCount = 2
    /\ err.type = "HTTPErr" /\ err.retry /\ err.statusCode = StatusNoContentCode

\* C30: on a status that matches no success StatusFn, with a decoder of the
\* error body, an error of that decoder becomes the message of the failure
\* and adds no flag: Retry(), NotFound() and Exists() follow the three lists
\* as they do without a decode error, also when the decode error has a Retry
\* method returning true.
C30_OnErrorAddsNoFlag ==
    (Mismatch /\ r.onErrorFn # "nil")
    => /\ obs.last.type = "HTTPErr"
       /\ obs.last.statusCode = obs.status
       /\ obs.last.errMsg = (IF r.onErrorFn = "ok" THEN "received unexpected response"
                             ELSE "decode failed")
       /\ obs.last.retry <=> AnyFn(obs.status, r.retryStatusFns)
       /\ obs.last.notFound <=> AnyFn(obs.status, r.notFoundFns)
       /\ obs.last.exists <=> AnyFn(obs.status, r.existsFns)
       /\ ~obs.last.retry => (pc = "done" /\ err = obs.last)

C30_Witness ==
    /\ Mismatch /\ r.onErrorFn = "failRetry" /\ r.backoff.kind = "Constant"
    /\ obs.status = StatusUnprocessableEntityCode /\ r.retryStatusFns = <<StatusNotFound>>
    /\ pc = "done" /\ obs.calls = 1 /\ doCallCount = 1
    /\ err.type = "HTTPErr" /\ err.errMsg = "decode failed"
    /\ ~err.retry /\ ~err.notFound /\ err.exists

(***************************************************************************)
(* Properties of SpecFlags.                                                *)
(***************************************************************************)
\* what the loop does after an attempt that returned an HTTPErr, told from
\* the Retry() of the failure, the policy and the attempt number alone
FlagsInertStep ==
    (obs'.calls = obs.calls + 1 /\ obs'.last.type = "HTTPErr")
    => IF ~obs'.last.retry
       THEN /\ pc' = "done" /\ err' = obs'.last /\ n' = n
            /\ obs'.nextCalls = obs.nextCalls /\ obs'.selects = obs.selects
       ELSE /\ n' = n + 1 /\ obs'.nextCalls = obs.nextCalls + 1
            /\ \E nr \in BackoffNext(r.backoff, n + 1) :
                 IF nr.retry
                 THEN pc' = "select" /\ wait' = nr.wait /\ obs'.selects = obs.selects + 1
                 ELSE pc' = "done" /\ err' = obs'.last /\ obs'.selects = obs.selects

\* the attempts of a call whose every attempt failed with Retry() true
FlagsInertCounts ==
    (obs.allRetry /\ GaveUp /\ r.backoff.kind \in {"Zero", "Constant"} /\ r.backoff.maxCalls > 0)
    => (obs.calls = r.backoff.maxCalls /\ obs.selects = r.backoff.maxCalls - 1)

\* C27: what the retry loop does after a failure depends on the failure's
\* Retry() only: for requests that classify the same statuses as retryable
\* and differ in their not-found and exists lists, whether the loop returns,
\* calls Next, waits, how long it waits and where it stops are the same,
\* whatever NotFound() and Exists() of the failures say.
C27_OnlyRetryFlagDecides == [][FlagsInertStep]_vars /\ []FlagsInertCounts

C27_Witness ==
    /\ Stopped /\ obs.calls = 2 /\ obs.selects = 1
    /\ r.backoff.kind = "Constant" /\ r.backoff.maxCalls = 2
    /\ obs.first.retry /\ ~obs.first.notFound /\ ~obs.first.exists
    /\ err.type = "HTTPErr" /\ err.retry /\ err.notFound /\ err.exists

(***************************************************************************)
(* Properties of SpecJitter.                                               *)
(***************************************************************************)
\* C22: jitter(millis) returns exactly 0 for millis <= 0 and a strictly
\* positive value for millis > 0, millis = 1 included, so the wait a jittered
\* SimpleBackoff returns for a positive entry of its schedule is positive.
C22_JitterPositive ==
    /\ obs.jitter # <<>>
       => IF obs.jitter[1] <= 0 THEN obs.jitter[2] = 0 ELSE obs.jitter[2] > 0
    /\ (n = 1 /\ obs.lastRetry /\ r.backoff.ticks[2] > 0) => wait > 0

\* C23: for millis > 0, whatever the random draw, jitter(millis) lies in the
\* closed range [0.5 * millis, 1.5 * millis], odd millis included.
C23_JitterRange ==
    (obs.jitter # <<>> /\ obs.jitter[1] > 0)
    => /\ 2 * obs.jitter[2] >= obs.jitter[1]
       /\ 2 * obs.jitter[2] <= 3 * obs.jitter[1]

(***************************************************************************)
(* Properties of SpecCallers.                                              *)
(***************************************************************************)
\* the instance as its constructor made it
Constructed == [r.backoff EXCEPT !.mutex = 0]

\* C34: whatever the two callers of one ZeroBackoff, ConstantBackoff or
\* SimpleBackoff do, and however their calls interleave, every call of
\* Next(k) gets the decision one caller alone gets for k: all calls with the
\* same k get the same decision, and without jitter the same wait; and once
\* no caller is inside Next the instance is as its constructor made it.
C34_NextKeepsNoState ==
    pc = "policy" /\ DOMAIN obs.decided # {}
    => /\ \A k \in DOMAIN obs.decided :
            /\ obs.decided[k] \subseteq BackoffNext(Constructed, k)
            /\ \A a \in obs.decided[k] : \A b \in obs.decided[k] : a.retry = b.retry
            /\ ~r.backoff.jitter => Cardinality(obs.decided[k]) <= 1
       /\ (\A i \in 1..Len(out) : out[i].pc # "locked") => r.backoff = Constructed

\* both callers were in Next of one SimpleBackoff that has a maxCalls at a
\* time, the one that got the lock first with the later attempt number, and
\* each was told to go on, with the wait of its own attempt number
C34_Witness ==
    /\ pc = "policy" /\ DOMAIN obs.decided # {}
    /\ r.backoff.kind = "Simple" /\ ~r.backoff.jitter /\ r.backoff.maxCalls > 0
    /\ out[1].pc = "returned" /\ out[2].pc = "returned"
    /\ out[1].met /\ out[1].retry > out[2].retry
    /\ out[1].result.retry /\ out[2].result.retry
    /\ out[1].result.wait # out[2].result.wait

(***************************************************************************)
(* Properties of SpecShare.                                                *)
(***************************************************************************)
\* a step leaves the headers of every Request it does not add a header to,
\* and those of the Client, as they were
OthersKeepHeaders ==
    /\ \A i \in 1..Len(r) :
         r'[i].headers = r[i].headers => Elems(out', r'[i].headers) = Elems(out, r[i].headers)
    /\ Elems(out', obs'.client.headers) = Elems(out, obs.client.headers)

\* C33: a call of Header or ContentType on one Request of a Client changes
\* neither the headers of the other Request of that Client nor the default
\* headers of the Client, for every number of headers of the Client and every
\* order of the calls.
C33_RequestsOwnHeaders == [][OthersKeepHeaders]_vars

====
